---- MODULE Spec2Model ----
(***************************************************************************)
(* State-machine model of the AcuLeadFinder / Seekan-LG lead generation    *)
(* backend.  The module holds several specifications over one set of       *)
(* variables, one per component of the repository:                         *)
(*                                                                         *)
(*   Spec            src/api/index.py: campaigns, jobs, background agent   *)
(*                   runs and the draft approve / send endpoints.          *)
(*   SpecStore       memory/firestore_store.py: the FirestoreStore methods *)
(*                   on jobs, drafts and the global settings.              *)
(*   SpecLimits      policies/guardrails.py: check_send_limits.            *)
(*   SpecGuardrails  policies/guardrails.py: check_domain_restrictions and *)
(*                   validate_lead_data.                                   *)
(*   SpecCompliance  policies/compliance.py: ensure_email_compliance.      *)
(*   SpecPlanner     agents/planner.py: plan_search_terms, get_next_step,  *)
(*                   should_continue.                                      *)
(*   SpecLeadGen     agents/leadgen.py: LeadGenAgent.run_agent_loop.       *)
(*   SpecJobs        src/api/index.py: create_job and its background      *)
(*                   runs.                                                 *)
(*   SpecRoutes      routes/drafts.py: approve, reject and send a draft.   *)
(*   SpecSend        tools/email_sendgrid.py, tools/email_templates.py,    *)
(*                   tools/llm.py: send_draft_email on decorated drafts.   *)
(*   SpecSettings    memory/firestore_store.py: get_global_settings called *)
(*                   side by side.                                         *)
(*                                                                         *)
(* A specification leaves the variables of the other components at their   *)
(* idle values.                                                            *)
(***************************************************************************)
EXTENDS Integers, Sequences, FiniteSets, TLC

VARIABLES
    \* ---- src/api/index.py (module-level dictionaries, lines 34-37) ----
    campaigns_db,   \* sequence of campaigns; the index stands for campaign_<uuid>
    jobs_db,        \* sequence of jobs; the index stands for job_<uuid>
    drafts_db,      \* sequence of drafts; the index stands for draft_<uuid>
    tasks,          \* BackgroundTasks added by create_job and not yet run
    messages,       \* number of message ids handed out by send_draft (sg_<uuid>)
    leads,          \* lead id -> domain of that lead (the data a leadId refers to)
    \* ---- src/services/agent-runner/memory/firestore_store.py ----
    db,             \* FirestoreStore.db: the client, or None
    store_jobs,     \* collection "jobs": job id -> Job
    store_drafts,   \* collection "drafts": draft id -> Draft
    store_settings, \* document settings/global
    store_events,   \* collection "runs": the RunEvents logged
    reads,          \* get_global_settings calls between their get() and set()
    \* ---- src/services/agent-runner/agents/planner.py ----
    planner,        \* a TaskPlanner: its campaign_config and current_step
    returned,       \* the steps get_next_step has returned for running states
    \* ---- src/services/agent-runner/agents/leadgen.py ----
    agent,          \* a LeadGenAgent: its job, configuration and counters
    \* ---- process environment read by Guardrails.__init__ ----
    env,            \* SEND_CAP_PER_RUN and DAILY_SEND_CAP
    \* ---- the call made last on a policy, planner or store object ----
    call,           \* the operation and its arguments
    ret             \* the value it returned

apiVars == <<campaigns_db, jobs_db, drafts_db, tasks, messages, leads>>
storeVars == <<db, store_jobs, store_drafts, store_settings, store_events, reads>>
agentVars == <<planner, returned, agent>>
callVars == <<env, call, ret>>

vars == <<campaigns_db, jobs_db, drafts_db, tasks, messages, leads,
          db, store_jobs, store_drafts, store_settings, store_events, reads,
          planner, returned, agent, env, call, ret>>

(***************************************************************************)
(* Bounds of the model.                                                    *)
(***************************************************************************)
MaxCampaigns == 1
MaxJobs == 2
MaxSends == 2
MaxCount == 4
MaxListLen == 1
MaxRounds == 2
MaxKeywords == 5
MaxCalls == 8

\* The value of "call" and "ret" while no call is in progress.
NoCall == [op |-> "none"]

\* The value None of Python, for a string field a dictionary does not hold yet.
None == "None"

\* A JSON value of a request that is an integer n, and one that is no number.
Num(n) == [int |-> TRUE, val |-> n]
NotANumber == [int |-> FALSE, val |-> 0]

(***************************************************************************)
(* src/api/index.py                                                        *)
(***************************************************************************)

\* The presets shipped with the service (list_presets, line 598).
Presets == {"acu", "apl"}

\* plannedCount values a request can carry: request.get("plannedCount", 5) is
\* not validated, so it may be negative or not a number at all.
PlannedCounts == {Num(-1), Num(0), Num(1), Num(2), NotANumber}

\* "Max 5 for demo": drafts_created = min(planned_count, 5).
MaxDraftsPerRun == 5

LeadIds == 1..MaxDraftsPerRun

Min(a, b) == IF a <= b THEN a ELSE b

\* POST /campaigns with a preset whose file exists.
create_campaign(preset) ==
    /\ Len(campaigns_db) < MaxCampaigns
    /\ campaigns_db' = Append(campaigns_db, [preset |-> preset])
    /\ UNCHANGED <<jobs_db, drafts_db, tasks, messages, leads, storeVars, agentVars, callVars>>

\* The business profile create_job attaches when the request names none:
\* the default acupuncture profile for preset "acu", otherwise no profile.
DefaultProfile(campaign) ==
    IF campaign.preset = "acu" THEN "Avicenna Acupuncture" ELSE None

\* create_job adding a background task in both branches of "if
\* business_profile" instead of one.
create_job_two_runs(campaign_id, planned_count) ==
    /\ Len(jobs_db) < MaxJobs
    /\ campaign_id \in DOMAIN campaigns_db
    /\ LET business_profile == DefaultProfile(campaigns_db[campaign_id])
           job_id == Len(jobs_db) + 1
       IN  /\ jobs_db' = Append(jobs_db,
                  [campaignId |-> campaign_id,
                   plannedCount |-> planned_count,
                   sentCount |-> 0,
                   status |-> "running",
                   businessProfileUsed |->
                       IF business_profile # None THEN business_profile ELSE "Generic"])
           /\ tasks' = tasks \cup
                  {[fn |-> f, planned_count |-> planned_count, job_id |-> job_id] :
                       f \in {"run_context_aware_agent", "run_agent"}}
    /\ UNCHANGED <<campaigns_db, drafts_db, messages, leads, storeVars, agentVars, callVars>>

\* POST /jobs: the campaign must exist; the job is stored with status
\* "running" and sentCount 0 and one background task is added for it.
create_job(campaign_id, planned_count) ==
    /\ Len(jobs_db) < MaxJobs
    /\ campaign_id \in DOMAIN campaigns_db
    /\ LET business_profile == DefaultProfile(campaigns_db[campaign_id])
           job_id == Len(jobs_db) + 1
       IN  /\ jobs_db' = Append(jobs_db,
                  [campaignId |-> campaign_id,
                   plannedCount |-> planned_count,
                   sentCount |-> 0,
                   status |-> "running",
                   businessProfileUsed |->
                       IF business_profile # None THEN business_profile ELSE "Generic"])
           /\ tasks' = tasks \cup
                  {[fn |-> IF business_profile # None
                             THEN "run_context_aware_agent" ELSE "run_agent",
                    planned_count |-> planned_count,
                    job_id |-> job_id]}
    /\ UNCHANGED <<campaigns_db, drafts_db, messages, leads, storeVars, agentVars, callVars>>

\* POST /jobs for a campaign id that is not stored: HTTPException, no change.
create_job_unknown_campaign(campaign_id) ==
    /\ campaign_id \notin DOMAIN campaigns_db
    /\ UNCHANGED vars

\* The drafts one agent run adds to drafts_db: lead_1 .. lead_n, status "draft".
\* messageId 0 stands for a draft that holds no "messageId" key yet.
NewDrafts(job_id, n) ==
    [i \in 1..n |-> [jobId |-> job_id, leadId |-> i, status |-> "draft",
                     messageId |-> 0, approvedBy |-> None]]

\* SeekanLGAgent.run_agent_loop / ContextAwareLeadGenAgent.run_agent_loop:
\* min(planned_count, 5) drafts; a planned_count that is no number makes
\* min() raise, which the loop turns into a "failed" result before any
\* draft is stored.  The loop holds no await, so it runs in one step.
run_agent_loop(job_id, planned_count) ==
    IF planned_count.int
    THEN LET drafts_created == Min(planned_count.val, MaxDraftsPerRun)
         IN  [status |-> "completed", drafts_created |-> drafts_created,
              drafts |-> NewDrafts(job_id, IF drafts_created > 0 THEN drafts_created ELSE 0)]
    ELSE [status |-> "failed", drafts_created |-> 0, drafts |-> <<>>]

\* The background function without its "else" branch and its "except": a
\* run that did not complete leaves the job as it is.
RunBackground_completed_only(t) ==
    LET result == run_agent_loop(t.job_id, t.planned_count)
    IN  /\ drafts_db' = drafts_db \o result.drafts
        /\ jobs_db' =
             IF result.status = "completed"
             THEN [jobs_db EXCEPT ![t.job_id].status = "completed",
                                  ![t.job_id].sentCount = result.drafts_created]
             ELSE jobs_db
        /\ tasks' = tasks \ {t}
        /\ UNCHANGED <<campaigns_db, messages, leads, storeVars, agentVars, callVars>>

\* The body shared by run_agent and run_context_aware_agent.
RunBackground(t) ==
    LET result == run_agent_loop(t.job_id, t.planned_count)
    IN  /\ drafts_db' = drafts_db \o result.drafts
        /\ jobs_db' =
             IF result.status = "completed"
             THEN [jobs_db EXCEPT ![t.job_id].status = "completed",
                                  ![t.job_id].sentCount = result.drafts_created]
             ELSE [jobs_db EXCEPT ![t.job_id].status = "failed"]
        /\ tasks' = tasks \ {t}
        /\ UNCHANGED <<campaigns_db, messages, leads, storeVars, agentVars, callVars>>

run_agent ==
    \E t \in tasks : t.fn = "run_agent" /\ RunBackground(t)

run_context_aware_agent ==
    \E t \in tasks : t.fn = "run_context_aware_agent" /\ RunBackground(t)

\* POST /drafts/{draft_id}/approve
approve_draft(draft_id) ==
    /\ draft_id \in DOMAIN drafts_db
    /\ drafts_db' = [drafts_db EXCEPT ![draft_id].status = "approved",
                                      ![draft_id].approvedBy = "operator"]
    /\ UNCHANGED <<campaigns_db, jobs_db, tasks, messages, leads, storeVars, agentVars, callVars>>

\* The state of drafts_db and jobs_db after send_draft on a stored draft.
send_draft_update(draft_id) ==
    LET job_id == drafts_db[draft_id].jobId
    IN  /\ drafts_db' = [drafts_db EXCEPT ![draft_id].status = "sent",
                                          ![draft_id].messageId = messages + 1]
        /\ jobs_db' = IF job_id \in DOMAIN jobs_db
                      THEN [jobs_db EXCEPT ![job_id].sentCount = @ + 1]
                      ELSE jobs_db

\* POST /drafts/{draft_id}/send
send_draft(draft_id) ==
    /\ messages < MaxSends
    /\ draft_id \in DOMAIN drafts_db
    /\ send_draft_update(draft_id)
    /\ messages' = messages + 1
    /\ UNCHANGED <<campaigns_db, tasks, leads, storeVars, agentVars, callVars>>

\* approve or send on a draft id that is not stored: HTTPException, no change.
draft_not_found(draft_id) ==
    /\ draft_id \notin DOMAIN drafts_db
    /\ UNCHANGED vars


(***************************************************************************)
(* Strings.  A Python str is modelled as the sequence of its characters,   *)
(* so that lower(), rstrip(), "in" and the regular expression of           *)
(* _is_valid_email are computed character by character.                    *)
(***************************************************************************)
UpperCase ==
    <<"A","B","C","D","E","F","G","H","I","J","K","L","M",
      "N","O","P","Q","R","S","T","U","V","W","X","Y","Z">>
LowerCase ==
    <<"a","b","c","d","e","f","g","h","i","j","k","l","m",
      "n","o","p","q","r","s","t","u","v","w","x","y","z">>
Digits == {"0","1","2","3","4","5","6","7","8","9"}
Whitespace == {" ", "\n", "\t", "\r"}

Range(s) == {s[i] : i \in DOMAIN s}
Letters == Range(UpperCase) \cup Range(LowerCase)

\* str.lower() on one character and on a string.
LowerChar(c) ==
    IF c \in Range(UpperCase)
    THEN LowerCase[CHOOSE i \in DOMAIN UpperCase : UpperCase[i] = c]
    ELSE c
Lower(s) == [i \in DOMAIN s |-> LowerChar(s[i])]

\* "sub in s" of Python: sub occurs in s as a contiguous substring.
Contains(s, sub) ==
    \E i \in 0..(Len(s) - Len(sub)) :
        \A j \in 1..Len(sub) : s[i + j] = sub[j]

\* str.rstrip(): the string without its trailing whitespace.
RStrip(s) ==
    LET keep == {i \in DOMAIN s : s[i] \notin Whitespace}
        last == IF keep = {} THEN 0 ELSE CHOOSE i \in keep : \A j \in keep : j <= i
    IN  SubSeq(s, 1, last)

\* "x in list" of Python, for a list held as a sequence.
InList(x, list) == \E i \in DOMAIN list : list[i] = x

\* 'gmail.com'
GMAIL_COM ==
    <<"g","m","a","i","l",".","c","o","m">>
\* 'yahoo.com'
YAHOO_COM ==
    <<"y","a","h","o","o",".","c","o","m">>
\* 'hotmail.com'
HOTMAIL_COM ==
    <<"h","o","t","m","a","i","l",".","c","o","m">>
\* 'outlook.com'
OUTLOOK_COM ==
    <<"o","u","t","l","o","o","k",".","c","o","m">>
\* 'aol.com'
AOL_COM ==
    <<"a","o","l",".","c","o","m">>
\* "If you'd prefer not to hear from us again, reply with 'unsubscribe'."
DEFAULT_UNSUBSCRIBE_TEXT ==
    <<"I","f"," ","y","o","u","'","d"," ","p","r","e","f","e","r"," ","n",
      "o","t"," ","t","o"," ","h","e","a","r"," ","f","r","o","m"," ","u",
      "s"," ","a","g","a","i","n",","," ","r","e","p","l","y"," ","w","i",
      "t","h"," ","'","u","n","s","u","b","s","c","r","i","b","e","'",".">>
\* 'NOFA Business Consulting, LLC --- Gaithersburg, MD'
DEFAULT_LEGAL_ADDRESS ==
    <<"N","O","F","A"," ","B","u","s","i","n","e","s","s"," ","C","o","n",
      "s","u","l","t","i","n","g",","," ","L","L","C"," ","-","-","-"," ",
      "G","a","i","t","h","e","r","s","b","u","r","g",","," ","M","D">>

\* Domains, e-mail addresses and company names used as inputs.
\* 'Yahoo.Com'
YAHOO_MIXED ==
    <<"Y","a","h","o","o",".","C","o","m">>
\* 'acme.com'
ACME_COM ==
    <<"a","c","m","e",".","c","o","m">>
\* 'Acme.COM'
ACME_MIXED ==
    <<"A","c","m","e",".","C","O","M">>
\* 'clinic.org'
CLINIC_ORG ==
    <<"c","l","i","n","i","c",".","o","r","g">>
\* 'bob@acme.com'
EMAIL_OK ==
    <<"b","o","b","@","a","c","m","e",".","c","o","m">>
\* 'bob@acme'
EMAIL_NO_TLD ==
    <<"b","o","b","@","a","c","m","e">>
\* 'a@b@acme.com'
EMAIL_TWO_AT ==
    <<"a","@","b","@","a","c","m","e",".","c","o","m">>
\* 'bob@acme.c'
EMAIL_SHORT_TLD ==
    <<"b","o","b","@","a","c","m","e",".","c">>
\* 'bob@acme.com\n'
EMAIL_NEWLINE ==
    <<"b","o","b","@","a","c","m","e",".","c","o","m","\n">>
\* 'Acme'
COMPANY_ACME ==
    <<"A","c","m","e">>
\* 'A'
COMPANY_A ==
    <<"A">>

(***************************************************************************)
(* src/services/agent-runner/memory/schemas.py                             *)
(***************************************************************************)
JobStatus == {"queued", "running", "paused", "done", "failed"}
DraftStatus == {"draft", "approved", "rejected", "sent", "failed"}

\* GlobalSettings(): the defaults of the model class.
GlobalSettings ==
    [allowDomains |-> <<>>, blockDomains |-> <<>>,
     unsubscribeText |-> DEFAULT_UNSUBSCRIBE_TEXT,
     legalAddress |-> DEFAULT_LEGAL_ADDRESS]

(***************************************************************************)
(* src/services/agent-runner/memory/firestore_store.py                     *)
(*                                                                         *)
(* db is the Firestore client, or None when _initialize_firestore failed.  *)
(* A collection is a function from document ids to documents; the single   *)
(* document settings/global is store_settings, Absent before it is written.*)
(* A read or write of the backend may raise; every method catches that and *)
(* returns its failure value: "fault" is that outcome.                     *)
(***************************************************************************)
Absent == [exists |-> FALSE]
Doc(d) == [exists |-> TRUE, data |-> d]

\* The callers of get_global_settings that may run side by side (processes
\* sharing the Firestore database), and a caller that is not inside a call.
Readers == {"r1", "r2"}
NoRead == [pc |-> "idle"]

\* Document ids used with the collections "jobs" and "drafts".
StoreJobIds == {"job_1"}
StoreDraftIds == {"draft_1"}
StoreRunIds == {"run_1"}

\* FirestoreStore.get_job: the stored Job as a found document, or Absent
\* for the None the method returns (no client, backend error, no document).
get_job(job_id, fault) ==
    IF db = None THEN Absent
    ELSE IF fault THEN Absent
    ELSE IF store_jobs[job_id].exists THEN store_jobs[job_id]
    ELSE Absent

\* FirestoreStore.get_global_settings: the value returned ...
get_global_settings(fault) ==
    IF db = None THEN GlobalSettings
    ELSE IF fault THEN GlobalSettings
    ELSE IF store_settings.exists THEN store_settings.data
    ELSE GlobalSettings

\* ... and the settings document it leaves behind: the defaults are
\* written when the document did not exist.
settings_after_get(fault) ==
    IF db # None /\ ~fault /\ ~store_settings.exists
    THEN Doc(GlobalSettings)
    ELSE store_settings

\* get_global_settings as the steps a caller takes on the shared database:
\* doc_ref.get() (line 223), then, for a document that did not exist,
\* doc_ref.set(default_settings.dict()) (line 229).  Between the two another
\* caller may act.  A caller that is done holds what it was returned
\* (result), the snapshot its get() gave (saw) and whether get() or set()
\* raised (failed).
ReadDone(saw, result, failed) ==
    [pc |-> "done", saw |-> saw, result |-> result, failed |-> failed]

\* The caller goes on to set() whatever get() returned.
read_after_get_always_set(doc, fault) ==
    IF db = None \/ fault THEN ReadDone(Absent, GlobalSettings, TRUE)
    ELSE [pc |-> "set", saw |-> doc]

\* The caller after "if not self.db" and doc_ref.get(): done with the
\* defaults (no client, or get() raised), done with the stored settings
\* (doc.exists), or about to write the defaults.
read_after_get(doc, fault) ==
    IF db = None \/ fault THEN ReadDone(Absent, GlobalSettings, TRUE)
    ELSE IF doc.exists THEN ReadDone(doc, doc.data, FALSE)
    ELSE [pc |-> "set", saw |-> doc]

\* Lines 217-227: the guard, doc_ref.get() and the doc.exists branch.
settings_get(r, fault) ==
    /\ reads[r].pc = "idle"
    /\ reads' = [reads EXCEPT ![r] = read_after_get(store_settings, fault)]
    /\ UNCHANGED <<apiVars, db, store_jobs, store_drafts, store_settings,
                   store_events, agentVars, callVars>>

\* Lines 228-233: doc_ref.set(default_settings.dict()) and the return; an
\* exception of set() returns GlobalSettings() with nothing written.
settings_set(r, fault) ==
    /\ reads[r].pc = "set"
    /\ reads' = [reads EXCEPT ![r] = ReadDone(reads[r].saw, GlobalSettings, fault)]
    /\ store_settings' = IF fault THEN store_settings ELSE Doc(GlobalSettings)
    /\ UNCHANGED <<apiVars, db, store_jobs, store_drafts, store_events,
                   agentVars, callVars>>

\* The caller uses the value it was returned and may call again.
settings_return(r) ==
    /\ reads[r].pc = "done"
    /\ reads' = [reads EXCEPT ![r] = NoRead]
    /\ UNCHANGED <<apiVars, db, store_jobs, store_drafts, store_settings,
                   store_events, agentVars, callVars>>

\* An optional argument: left at its default None, or given.
NoArg == [given |-> FALSE]
Arg(v) == [given |-> TRUE, val |-> v]

\* A Job / Draft as its model class builds it: the fields not given take
\* their defaults.  updatedAt is "created" until update() stamps
\* firestore.SERVER_TIMESTAMP on it ("server").
Job(planned) ==
    [plannedCount |-> planned, sentCount |-> 0, costUSD |-> 0,
     status |-> "queued", updatedAt |-> "created"]
Draft(job_id, lead_id) ==
    [jobId |-> job_id, leadId |-> lead_id, status |-> "draft",
     reviewer |-> None, messageId |-> None, updatedAt |-> "created"]

\* update_data that always carries "sentCount" and "costUSD": an argument
\* left at None resets the field to 0.
job_update_data_reset(job, status, sent_count, cost) ==
    [job EXCEPT !.status = status,
                !.updatedAt = "server",
                !.sentCount = IF sent_count.given THEN sent_count.val ELSE 0,
                !.costUSD = IF cost.given THEN cost.val ELSE 0]

\* doc_ref.update(update_data) on a Job: Firestore raises NotFound for a
\* document that does not exist, which update_job_status turns into False.
job_update_data(job, status, sent_count, cost) ==
    [job EXCEPT !.status = status,
                !.updatedAt = "server",
                !.sentCount = IF sent_count.given THEN sent_count.val ELSE @,
                !.costUSD = IF cost.given THEN cost.val ELSE @]

\* FirestoreStore.create_job: doc_ref.set(job.dict()).
store_create_job(job_id, job, fault) ==
    /\ call = NoCall
    /\ call' = [op |-> "create_job", job_id |-> job_id, fault |-> fault]
    /\ IF db = None \/ fault
       THEN /\ ret' = [ok |-> FALSE]
            /\ UNCHANGED store_jobs
       ELSE /\ ret' = [ok |-> TRUE]
            /\ store_jobs' = [store_jobs EXCEPT ![job_id] = Doc(job)]
    /\ UNCHANGED <<apiVars, store_events, reads, db, store_drafts, store_settings, agentVars, env>>

\* FirestoreStore.update_job_status
update_job_status(job_id, status, sent_count, cost, fault) ==
    /\ call = NoCall
    /\ call' = [op |-> "update_job_status", job_id |-> job_id, status |-> status,
                sent_count |-> sent_count, cost |-> cost, fault |-> fault,
                before |-> store_jobs[job_id]]
    /\ IF db = None \/ fault \/ ~store_jobs[job_id].exists
       THEN /\ ret' = [ok |-> FALSE]
            /\ UNCHANGED store_jobs
       ELSE /\ ret' = [ok |-> TRUE]
            /\ store_jobs' = [store_jobs EXCEPT ![job_id] =
                   Doc(job_update_data(store_jobs[job_id].data, status, sent_count, cost))]
    /\ UNCHANGED <<apiVars, store_events, reads, db, store_drafts, store_settings, agentVars, env>>

\* FirestoreStore.create_draft: doc_ref.set(draft.dict()).
store_create_draft(draft_id, draft, fault) ==
    /\ call = NoCall
    /\ call' = [op |-> "create_draft", draft_id |-> draft_id, fault |-> fault]
    /\ IF db = None \/ fault
       THEN /\ ret' = [ok |-> FALSE]
            /\ UNCHANGED store_drafts
       ELSE /\ ret' = [ok |-> TRUE]
            /\ store_drafts' = [store_drafts EXCEPT ![draft_id] = Doc(draft)]
    /\ UNCHANGED <<apiVars, store_events, reads, db, store_jobs, store_settings, agentVars, env>>

\* update_data of update_draft_status: "if reviewer:" and "if message_id:"
\* skip an argument that is None.
draft_update_data(draft, status, reviewer, message_id) ==
    [draft EXCEPT !.status = status,
                  !.updatedAt = "server",
                  !.reviewer = IF reviewer # None THEN reviewer ELSE @,
                  !.messageId = IF message_id # None THEN message_id ELSE @]

\* FirestoreStore.update_draft_status
update_draft_status(draft_id, status, reviewer, message_id, fault) ==
    /\ call = NoCall
    /\ call' = [op |-> "update_draft_status", draft_id |-> draft_id, status |-> status,
                reviewer |-> reviewer, message_id |-> message_id, fault |-> fault,
                before |-> store_drafts[draft_id]]
    /\ IF db = None \/ fault \/ ~store_drafts[draft_id].exists
       THEN /\ ret' = [ok |-> FALSE]
            /\ UNCHANGED store_drafts
       ELSE /\ ret' = [ok |-> TRUE]
            /\ store_drafts' = [store_drafts EXCEPT ![draft_id] =
                   Doc(draft_update_data(store_drafts[draft_id].data, status,
                                         reviewer, message_id))]
    /\ UNCHANGED <<apiVars, store_events, reads, db, store_jobs, store_settings, agentVars, env>>

\* A RunEvent as its model class builds it.
RunEvent(job_id, step, event) == [jobId |-> job_id, step |-> step, event |-> event]

\* FirestoreStore.log_run_event: doc_ref.set(run_event.dict()).
log_run_event(run_id, run_event, fault) ==
    /\ call = NoCall
    /\ call' = [op |-> "log_run_event", run_id |-> run_id, fault |-> fault]
    /\ IF db = None \/ fault
       THEN /\ ret' = [ok |-> FALSE]
            /\ UNCHANGED store_events
       ELSE /\ ret' = [ok |-> TRUE]
            /\ store_events' = [store_events EXCEPT ![run_id] = Doc(run_event)]
    /\ UNCHANGED <<apiVars, reads, db, store_jobs, store_drafts, store_settings,
                   agentVars, env>>

\* await firestore_store.get_global_settings()
store_get_global_settings(fault) ==
    /\ call = NoCall
    /\ call' = [op |-> "get_global_settings", fault |-> fault]
    /\ ret' = get_global_settings(fault)
    /\ store_settings' = settings_after_get(fault)
    /\ UNCHANGED <<apiVars, store_events, reads, db, store_jobs, store_drafts, agentVars, env>>

(***************************************************************************)
(* src/services/agent-runner/routes/drafts.py                              *)
(* The router keeps its own module-level dictionary drafts_db (line 6),    *)
(* held here in the variable drafts_db as a function from draft ids to     *)
(* Absent or the stored dictionary.  The response goes to ret.             *)
(***************************************************************************)
\* Draft ids a request path can carry.
RouteDraftIds == {"d1", "d2", "d3"}

\* "if draft_id not in drafts_db: drafts_db[draft_id] = {..., "status": "draft"}"
\* messageId None stands for a dictionary without the key.
route_draft(draft_id) ==
    IF drafts_db[draft_id].exists
    THEN drafts_db[draft_id].data
    ELSE [status |-> "draft", messageId |-> None]

\* The part of a route handler every one of them shares: the request is
\* noted in call, the answer in ret, the draft is stored with its new value.
route_store(op, draft_id, draft, response) ==
    /\ call' = [op |-> op, draft_id |-> draft_id]
    /\ drafts_db' = [drafts_db EXCEPT ![draft_id] = Doc(draft)]
    /\ ret' = response
    /\ UNCHANGED <<campaigns_db, jobs_db, tasks, messages, leads, storeVars,
                   agentVars, env>>

\* POST /drafts/{draft_id}/approve
route_approve_draft(draft_id) ==
    route_store("approve", draft_id,
                [route_draft(draft_id) EXCEPT !.status = "approved"],
                [status_code |-> 200, ok |-> TRUE])

\* POST /drafts/{draft_id}/reject
route_reject_draft(draft_id) ==
    route_store("reject", draft_id,
                [route_draft(draft_id) EXCEPT !.status = "rejected"],
                [status_code |-> 200, ok |-> TRUE])

\* POST /drafts/{draft_id}/send
route_send_draft(draft_id) ==
    route_store("send", draft_id,
                [route_draft(draft_id) EXCEPT !.status = "sent",
                                              !.messageId = "sg_demo_" \o draft_id],
                [status_code |-> 200, sent |-> TRUE,
                 messageId |-> "sg_demo_" \o draft_id])

(***************************************************************************)
(* src/services/agent-runner/policies/guardrails.py                        *)
(***************************************************************************)

\* int(os.getenv("SEND_CAP_PER_RUN", "20")), int(os.getenv("DAILY_SEND_CAP", "200"))
DefaultSendCapPerRun == 20
DefaultDailySendCap == 200

\* check_send_limits with ">=" where the code compares with ">".
check_send_limits_at_cap(job_id, planned_send_count, fault) ==
    LET job == get_job(job_id, fault)
    IN  IF ~job.exists
        THEN [allowed |-> FALSE, reason |-> "Job not found"]
        ELSE LET sent_this_run == job.data.sentCount
                 estimated_daily_sent == sent_this_run + planned_send_count
             IN  IF sent_this_run + planned_send_count >= env.send_cap_per_run
                 THEN [allowed |-> FALSE, reason |-> "Per-run send cap exceeded"]
                 ELSE IF estimated_daily_sent >= env.daily_send_cap
                 THEN [allowed |-> FALSE, reason |-> "Daily send cap exceeded"]
                 ELSE [allowed |-> TRUE, reason |-> "Within limits"]

\* check_send_limits going on with sentCount 0 when get_job returned None,
\* where the code returns "Job not found".
check_send_limits_fail_open(job_id, planned_send_count, fault) ==
    LET job == get_job(job_id, fault)
        sent_this_run == IF job.exists THEN job.data.sentCount ELSE 0
        estimated_daily_sent == sent_this_run + planned_send_count
    IN  IF sent_this_run + planned_send_count > env.send_cap_per_run
        THEN [allowed |-> FALSE, reason |-> "Per-run send cap exceeded"]
        ELSE IF estimated_daily_sent > env.daily_send_cap
        THEN [allowed |-> FALSE, reason |-> "Daily send cap exceeded"]
        ELSE [allowed |-> TRUE, reason |-> "Within limits"]

\* Guardrails.check_send_limits.  The reason is modelled by the text that
\* identifies it, without the numbers the f-string adds.
check_send_limits(job_id, planned_send_count, fault) ==
    LET job == get_job(job_id, fault)
    IN  IF ~job.exists
        THEN [allowed |-> FALSE, reason |-> "Job not found"]
        ELSE LET sent_this_run == job.data.sentCount
                 estimated_daily_sent == sent_this_run + planned_send_count
             IN  IF sent_this_run + planned_send_count > env.send_cap_per_run
                 THEN [allowed |-> FALSE, reason |-> "Per-run send cap exceeded"]
                 ELSE IF estimated_daily_sent > env.daily_send_cap
                 THEN [allowed |-> FALSE, reason |-> "Daily send cap exceeded"]
                 ELSE [allowed |-> TRUE, reason |-> "Within limits"]

\* [d.lower() for d in list]
LowerAll(list) == [i \in DOMAIN list |-> Lower(list[i])]

personal_domains == <<GMAIL_COM, YAHOO_COM, HOTMAIL_COM, OUTLOOK_COM, AOL_COM>>

\* The block-list test of check_domain_restrictions (line 69).
InBlockList(domain, settings) ==
    InList(Lower(domain), LowerAll(settings.blockDomains))

\* The allow-list test of check_domain_restrictions (line 76).
NotInAllowList(domain, settings) ==
    /\ settings.allowDomains # <<>>
    /\ ~InList(Lower(domain), LowerAll(settings.allowDomains))

\* domain_decision with the allow list consulted before the block list.
domain_decision_allow_first(domain, settings) ==
    IF NotInAllowList(domain, settings)
    THEN [allowed |-> FALSE, reason |-> "not in allow list", domain |-> domain]
    ELSE IF InBlockList(domain, settings)
    THEN [allowed |-> FALSE, reason |-> "is in block list", domain |-> domain]
    ELSE IF InList(Lower(domain), personal_domains)
    THEN [allowed |-> FALSE, reason |-> "is a personal email domain", domain |-> domain]
    ELSE [allowed |-> TRUE, reason |-> "Domain allowed", domain |-> domain]

\* domain_decision with an explicit allow-list entry accepted at once.
domain_decision_allow_wins(domain, settings) ==
    IF InBlockList(domain, settings)
    THEN [allowed |-> FALSE, reason |-> "is in block list", domain |-> domain]
    ELSE IF NotInAllowList(domain, settings)
    THEN [allowed |-> FALSE, reason |-> "not in allow list", domain |-> domain]
    ELSE IF settings.allowDomains = <<>> /\ InList(Lower(domain), personal_domains)
    THEN [allowed |-> FALSE, reason |-> "is a personal email domain", domain |-> domain]
    ELSE [allowed |-> TRUE, reason |-> "Domain allowed", domain |-> domain]

\* The three checks of check_domain_restrictions on the settings it read.
domain_decision(domain, settings) ==
    IF InBlockList(domain, settings)
    THEN [allowed |-> FALSE, reason |-> "is in block list", domain |-> domain]
    ELSE IF NotInAllowList(domain, settings)
    THEN [allowed |-> FALSE, reason |-> "not in allow list", domain |-> domain]
    ELSE IF InList(Lower(domain), personal_domains)
    THEN [allowed |-> FALSE, reason |-> "is a personal email domain", domain |-> domain]
    ELSE [allowed |-> TRUE, reason |-> "Domain allowed", domain |-> domain]

\* Guardrails.check_domain_restrictions: the value returned.
check_domain_restrictions(domain, fault) ==
    domain_decision(domain, get_global_settings(fault))

\* The characters the three parts of the pattern of _is_valid_email accept.
LocalChars == Letters \cup Digits \cup {".", "_", "%", "+", "-"}
HostChars == Letters \cup Digits \cup {".", "-"}

\* Guardrails._is_valid_email:
\*   re.match(r'^[a-zA-Z0-9._%+-]+@[a-zA-Z0-9.-]+\.[a-zA-Z]{2,}$', email)
\* "$" also matches before one trailing line break.
_is_valid_email(email) ==
    \E n \in {Len(email)} \cup
             (IF email # <<>> /\ email[Len(email)] = "\n" THEN {Len(email) - 1} ELSE {}) :
      \E at \in 2..n : \E dot \in (at + 2)..(n - 2) :
        /\ email[at] = "@"
        /\ email[dot] = "."
        /\ \A i \in 1..(at - 1) : email[i] \in LocalChars
        /\ \A i \in (at + 1)..(dot - 1) : email[i] \in HostChars
        /\ \A i \in (dot + 1)..n : email[i] \in Letters

\* The errors validate_lead_data collects, in the order it appends them.
lead_errors(lead_data, fault) ==
    LET missing(field, value) ==
            IF value = <<>> THEN <<[error |-> "Missing required field", field |-> field]>>
            ELSE <<>>
        domain_check == check_domain_restrictions(lead_data.domain, fault)
    IN  missing("company", lead_data.company)
        \o missing("email", lead_data.email)
        \o missing("domain", lead_data.domain)
        \o (IF lead_data.email # <<>> /\ ~_is_valid_email(lead_data.email)
            THEN <<[error |-> "Invalid email format", email |-> lead_data.email]>>
            ELSE <<>>)
        \o (IF lead_data.domain # <<>> /\ ~domain_check.allowed
            THEN <<[error |-> domain_check.reason, domain |-> domain_check.domain]>>
            ELSE <<>>)

\* The warnings validate_lead_data collects.  confidence is held in tenths:
\* confidence < 0.3 is tenths < 3.
lead_warnings(lead_data) ==
    (IF lead_data.confidence < 3
     THEN <<"Low confidence score for lead data">> ELSE <<>>)
    \o (IF lead_data.company # <<>> /\ Len(lead_data.company) < 2
        THEN <<"Company name seems too short">> ELSE <<>>)

\* validate_lead_data with the warnings counted against the lead.
validate_lead_data_strict(lead_data, fault) ==
    LET errors == lead_errors(lead_data, fault)
    IN  [valid |-> Len(errors) = 0 /\ Len(lead_warnings(lead_data)) = 0,
         errors |-> errors,
         warnings |-> lead_warnings(lead_data)]

\* Guardrails.validate_lead_data: the value returned.
validate_lead_data(lead_data, fault) ==
    LET errors == lead_errors(lead_data, fault)
    IN  [valid |-> Len(errors) = 0,
         errors |-> errors,
         warnings |-> lead_warnings(lead_data)]

(***************************************************************************)
(* src/services/agent-runner/policies/compliance.py                        *)
(***************************************************************************)
\* self.unsubscribe_keywords (line 10)
unsubscribe_keywords ==
    <<<<"u","n","s","u","b","s","c","r","i","b","e">>,
      <<"s","t","o","p">>,
      <<"r","e","m","o","v","e">>,
      <<"o","p","t","-","o","u","t">>>>

\* misleading_phrases of _validate_subject (lines 102-105)
misleading_phrases ==
    <<<<"u","r","g","e","n","t">>,
      <<"i","m","m","e","d","i","a","t","e"," ","a","c","t","i","o","n">>,
      <<"f","i","n","a","l"," ","n","o","t","i","c","e">>,
      <<"y","o","u"," ","h","a","v","e"," ","w","o","n">>,
      <<"f","r","e","e"," ","m","o","n","e","y">>,
      <<"g","u","a","r","a","n","t","e","e","d">>,
      <<"1","0","0","%"," ","f","r","e","e">>,
      <<"n","o"," ","c","o","s","t">>,
      <<"p","r","i","z","e">>,
      <<"w","i","n","n","e","r">>>>

\* spammy_phrases of _validate_body_content (lines 124-127)
spammy_phrases ==
    <<<<"m","a","k","e"," ","m","o","n","e","y"," ","f","a","s","t">>,
      <<"w","o","r","k"," ","f","r","o","m"," ","h","o","m","e">>,
      <<"g","e","t"," ","r","i","c","h"," ","q","u","i","c","k">>,
      <<"d","o","u","b","l","e"," ","y","o","u","r">>,
      <<"r","i","s","k","-","f","r","e","e">>,
      <<"l","o","s","e"," ","w","e","i","g","h","t">>,
      <<"m","i","r","a","c","l","e">>,
      <<"o","n","c","e"," ","i","n"," ","a"," ","l","i","f","e","t","i","m","e">>>>

\* misleading_claims of _validate_body_content (lines 141-143)
misleading_claims ==
    <<<<"g","u","a","r","a","n","t","e","e","d"," ","r","e","s","u","l","t","s">>,
      <<"n","o"," ","r","i","s","k">>,
      <<"i","n","s","t","a","n","t">>,
      <<"o","v","e","r","n","i","g","h","t">>>>


\* "len(subject) > 150"
MaxSubjectLen == 150

\* any(keyword in body.lower() for keyword in self.unsubscribe_keywords)
HasKeyword(body) ==
    \E k \in DOMAIN unsubscribe_keywords : Contains(Lower(body), unsubscribe_keywords[k])

\* Compliance._has_unsubscribe_text
_has_unsubscribe_text(body, unsubscribe_text) ==
    IF unsubscribe_text = <<>> THEN FALSE
    ELSE Contains(Lower(body), Lower(unsubscribe_text)) \/ HasKeyword(body)

\* Compliance._add_unsubscribe_text: f"{body.rstrip()}\n\n{unsubscribe_text}"
_add_unsubscribe_text(body, unsubscribe_text) ==
    RStrip(body) \o <<"\n", "\n">> \o
        (IF unsubscribe_text = <<>> THEN DEFAULT_UNSUBSCRIBE_TEXT ELSE unsubscribe_text)

\* Compliance._has_legal_address
_has_legal_address(body, legal_address) ==
    IF legal_address = <<>> THEN FALSE ELSE Contains(body, legal_address)

\* Compliance._add_legal_address: f"{body.rstrip()}\n{legal_address}"
_add_legal_address(body, legal_address) ==
    RStrip(body) \o <<"\n">> \o
        (IF legal_address = <<>> THEN DEFAULT_LEGAL_ADDRESS ELSE legal_address)

\* Compliance._validate_subject
_validate_subject(subject) ==
    IF subject = <<>> \/ RStrip(subject) = <<>> THEN FALSE
    ELSE IF \E k \in DOMAIN misleading_phrases :
                Contains(Lower(subject), misleading_phrases[k]) THEN FALSE
    ELSE IF Len(subject) > MaxSubjectLen THEN FALSE
    ELSE TRUE

\* body.split(): the words of the body, each given by the place of its
\* first and of its last character.
WordStarts(body) ==
    {i \in DOMAIN body : body[i] \notin Whitespace
                         /\ (i = 1 \/ body[i - 1] \in Whitespace)}
WordEnd(body, i) ==
    CHOOSE j \in i..Len(body) :
        /\ \A k \in i..j : body[k] \notin Whitespace
        /\ (j = Len(body) \/ body[j + 1] \in Whitespace)

\* str.isupper(): some cased character, and no lower-case one.
IsUpper(word) ==
    /\ \E i \in DOMAIN word : word[i] \in Range(UpperCase)
    /\ \A i \in DOMAIN word : word[i] \notin Range(LowerCase)

\* [word for word in words if word.isupper() and len(word) > 2], by start.
all_caps_words(body) ==
    {i \in WordStarts(body) :
        LET word == SubSeq(body, i, WordEnd(body, i))
        IN  IsUpper(word) /\ Len(word) > 2}

\* The phrases of the list that occur in the text, in the order of the list.
PhrasesIn(list, text) == SelectSeq(list, LAMBDA phrase : Contains(text, phrase))

\* Compliance._validate_body_content: the issues it returns.
body_issues(body) ==
    LET spam == PhrasesIn(spammy_phrases, Lower(body))
        claimed == PhrasesIn(misleading_claims, Lower(body))
    IN  [i \in DOMAIN spam |-> [issue |-> "Contains spammy phrase", phrase |-> spam[i]]]
        \o (IF Cardinality(all_caps_words(body)) > 3
            THEN <<[issue |-> "Excessive use of capitalization", phrase |-> <<>>]>>
            ELSE <<>>)
        \o [i \in DOMAIN claimed |->
               [issue |-> "Potentially misleading claim", phrase |-> claimed[i]]]

\* A variant of the disclosure steps that appends the legal address first.
with_disclosures_legal_first(body, settings) ==
    LET b1 == IF ~_has_legal_address(body, settings.legalAddress)
              THEN _add_legal_address(body, settings.legalAddress)
              ELSE body
    IN  IF ~_has_unsubscribe_text(b1, settings.unsubscribeText)
        THEN _add_unsubscribe_text(b1, settings.unsubscribeText)
        ELSE b1

\* The body after the two disclosure steps of ensure_email_compliance
\* (lines 31-37).
with_disclosures(body, settings) ==
    LET b1 == IF ~_has_unsubscribe_text(body, settings.unsubscribeText)
              THEN _add_unsubscribe_text(body, settings.unsubscribeText)
              ELSE body
    IN  IF ~_has_legal_address(b1, settings.legalAddress)
        THEN _add_legal_address(b1, settings.legalAddress)
        ELSE b1

\* Compliance.ensure_email_compliance: the value returned.
ensure_email_compliance(subject, body, fault) ==
    LET settings == get_global_settings(fault)
        modified == with_disclosures(body, settings)
        subject_compliant == _validate_subject(subject)
        issues == body_issues(modified)
    IN  [compliant |-> subject_compliant /\ Len(issues) = 0,
         modified_subject |-> subject,
         modified_body |-> modified,
         issues |-> issues,
         subject_approved |-> subject_compliant,
         body_approved |-> Len(issues) = 0]

(***************************************************************************)
(* src/services/agent-runner/agents/planner.py                             *)
(***************************************************************************)
\* dict.get(key, default)
Get(d, key, default) == IF key \in DOMAIN d THEN d[key] ELSE default

\* TaskPlanner.steps (lines 13-20)
steps ==
    <<"plan_search_terms", "web_search", "enrich_leads", "draft_emails",
      "await_approval", "send_emails">>

\* TaskPlanner.__init__
TaskPlanner(campaign_config) ==
    [campaign_config |-> campaign_config, current_step |-> 0]

\* TaskPlanner.get_next_step: the step returned, and the planner afterwards.
get_next_step(self, current_state) ==
    IF Get(current_state, "status", None) = "completed" THEN "done"
    ELSE IF self.current_step < Len(steps) THEN steps[self.current_step + 1]
    ELSE "done"
\* A variant that moves the cursor before it looks at the state.
planner_after_next_step_always(self, current_state) ==
    IF self.current_step < Len(steps)
    THEN [self EXCEPT !.current_step = @ + 1]
    ELSE self

planner_after_next_step(self, current_state) ==
    IF Get(current_state, "status", None) # "completed"
       /\ self.current_step < Len(steps)
    THEN [self EXCEPT !.current_step = @ + 1]
    ELSE self

\* "return search_terms[:10]"
MaxSearchTerms == 10

\* The location of plan_search_terms (lines 44-52).
location_of(geo) ==
    LET city == Get(geo, "center_city", "")
        state == Get(geo, "state", "")
    IN  IF city # "" /\ state # "" THEN city \o ", " \o state
        ELSE IF state # "" THEN state
        ELSE ""

\* The loop over the keywords (lines 55-60), appending to search_terms.
RECURSIVE keyword_terms(_, _, _, _)
keyword_terms(search_terms, keywords, industry, location) ==
    IF keywords = <<>> THEN search_terms
    ELSE LET keyword == Head(keywords)
             appended ==
                 IF location # ""
                 THEN search_terms
                      \o <<keyword \o " " \o location,
                           industry \o " " \o keyword \o " " \o location>>
                 ELSE search_terms \o <<industry \o " " \o keyword>>
         IN  keyword_terms(appended, Tail(keywords), industry, location)

\* A variant of plan_search_terms that returns the whole list.
plan_search_terms_untruncated(self, job_id, campaign_config) ==
    LET industry == Get(campaign_config, "industry", "")
        location == location_of(Get(campaign_config, "geo", <<>>))
        keywords == Get(campaign_config, "keywords", <<>>)
        search_terms == keyword_terms(<<>>, keywords, industry, location)
    IN  IF industry # "" /\ location # ""
        THEN search_terms \o <<industry \o " services " \o location,
                               industry \o " clinic " \o location>>
        ELSE search_terms

\* TaskPlanner.plan_search_terms
plan_search_terms(self, job_id, campaign_config) ==
    LET industry == Get(campaign_config, "industry", "")
        location == location_of(Get(campaign_config, "geo", <<>>))
        keywords == Get(campaign_config, "keywords", <<>>)
        search_terms == keyword_terms(<<>>, keywords, industry, location)
        with_generic ==
            IF industry # "" /\ location # ""
            THEN search_terms \o <<industry \o " services " \o location,
                                   industry \o " clinic " \o location>>
            ELSE search_terms
    IN  SubSeq(with_generic, 1, Min(MaxSearchTerms, Len(with_generic)))

\* A variant of should_continue that stops only above the planned count.
should_continue_above(self, job_data, leads_count) ==
    LET planned_count == Get(job_data, "plannedCount", 0)
        sent_count == Get(job_data, "sentCount", 0)
    IN  IF sent_count > planned_count THEN FALSE
        ELSE IF leads_count > planned_count THEN FALSE
        ELSE TRUE

\* TaskPlanner.should_continue
should_continue(self, job_data, leads_count) ==
    LET planned_count == Get(job_data, "plannedCount", 0)
        sent_count == Get(job_data, "sentCount", 0)
    IN  IF sent_count >= planned_count THEN FALSE
        ELSE IF leads_count >= planned_count THEN FALSE
        ELSE TRUE

\* The planner of the other specifications: none of them uses it.
PlannerIdle == planner = TaskPlanner(<<>>) /\ returned = <<>>

(***************************************************************************)
(* src/services/agent-runner/tools/email_templates.py, tools/llm.py        *)
(* (_create_fallback_draft) and tools/email_sendgrid.py.  Strings are      *)
(* character sequences; "U+2022" stands for the one character of the       *)
(* bullet in the acupuncture template.  The process environment is env.    *)
(***************************************************************************)
\* The literal pieces of the f-strings of create_generic_b2b_template,
\* create_acupuncture_template and decorate_email.
B2B_HELLO ==
    <<"H","e","l","l","o"," ">>
B2B_CAME_ACROSS ==
    <<",","\n","\n","I"," ","c","a","m","e"," ","a","c","r","o","s","s",
      " ">>
B2B_IN_THE ==
    <<" ","i","n"," ","t","h","e"," ">>
B2B_INDUSTRY ==
    <<" ","i","n","d","u","s","t","r","y">>
B2B_REST ==
    <<" ","a","n","d"," ","w","a","s"," ","i","m","p","r","e","s","s","e",
      "d"," ","b","y"," ","y","o","u","r"," ","w","o","r","k","."," ","\n",
      "\n","A","t"," ","N","O","F","A"," ","B","u","s","i","n","e","s","s",
      " ","C","o","n","s","u","l","t","i","n","g",","," ","w","e"," ","h",
      "e","l","p"," ","b","u","s","i","n","e","s","s","e","s"," ","o","p",
      "t","i","m","i","z","e"," ","t","h","e","i","r"," ","o","p","e","r",
      "a","t","i","o","n","s"," ","a","n","d"," ","a","c","c","e","l","e",
      "r","a","t","e"," ","g","r","o","w","t","h"," ","t","h","r","o","u",
      "g","h"," ","s","t","r","a","t","e","g","i","c"," ","p","l","a","n",
      "n","i","n","g"," ","a","n","d"," ","p","r","o","c","e","s","s"," ",
      "i","m","p","r","o","v","e","m","e","n","t",".","\n","\n","I","'","d",
      " ","l","o","v","e"," ","t","o"," ","l","e","a","r","n"," ","m","o",
      "r","e"," ","a","b","o","u","t"," ","y","o","u","r"," ","b","u","s",
      "i","n","e","s","s"," ","c","h","a","l","l","e","n","g","e","s"," ",
      "a","n","d"," ","e","x","p","l","o","r","e"," ","i","f"," ","t","h",
      "e","r","e"," ","m","i","g","h","t"," ","b","e"," ","s","y","n","e",
      "r","g","y"," ","b","e","t","w","e","e","n"," ","o","u","r"," ","o",
      "r","g","a","n","i","z","a","t","i","o","n","s",".","\n","\n","W","o",
      "u","l","d"," ","y","o","u"," ","h","a","v","e"," ","1","5"," ","m",
      "i","n","u","t","e","s"," ","f","o","r"," ","a"," ","b","r","i","e",
      "f"," ","c","h","a","t"," ","n","e","x","t"," ","w","e","e","k","?",
      "\n","\n","B","e","s","t"," ","r","e","g","a","r","d","s",",">>
B2B_SUBJECT ==
    <<"C","o","n","n","e","c","t","i","o","n"," ","R","e","q","u","e","s",
      "t"," ","-"," ">>
ACU_DEAR ==
    <<"D","e","a","r"," ">>
ACU_INTRO ==
    <<",","\n","\n","I"," ","h","o","p","e"," ","t","h","i","s"," ","m","e",
      "s","s","a","g","e"," ","f","i","n","d","s"," ","y","o","u"," ","w",
      "e","l","l","."," ","I","'","m"," ","r","e","a","c","h","i","n","g",
      " ","o","u","t"," ","f","r","o","m"," ","A","v","i","c","e","n","n",
      "a"," ","A","c","u","p","u","n","c","t","u","r","e",","," ","s","e",
      "r","v","i","n","g"," ","t","h","e"," ","P","o","t","o","m","a","c",
      " ","c","o","m","m","u","n","i","t","y"," ","w","i","t","h"," ","t",
      "r","a","d","i","t","i","o","n","a","l"," ","C","h","i","n","e","s",
      "e"," ","m","e","d","i","c","i","n","e"," ","a","p","p","r","o","a",
      "c","h","e","s",".","\n","\n","I"," ","n","o","t","i","c","e","d",
      " ">>
ACU_REST ==
    <<" ","a","n","d"," ","a","p","p","r","e","c","i","a","t","e"," ","y",
      "o","u","r"," ","d","e","d","i","c","a","t","i","o","n"," ","t","o",
      " ","c","o","m","m","u","n","i","t","y"," ","w","e","l","l","n","e",
      "s","s","."," ","M","a","n","y"," ","o","f"," ","o","u","r"," ","p",
      "a","t","i","e","n","t","s"," ","f","i","n","d"," ","s","i","g","n",
      "i","f","i","c","a","n","t"," ","r","e","l","i","e","f"," ","f","r",
      "o","m",":","\n","U+2022"," ","C","h","r","o","n","i","c"," ","p","a",
      "i","n"," ","c","o","n","d","i","t","i","o","n","s","\n","U+2022"," ",
      "S","t","r","e","s","s"," ","a","n","d"," ","a","n","x","i","e","t",
      "y"," ","m","a","n","a","g","e","m","e","n","t","\n","U+2022"," ","S",
      "l","e","e","p"," ","d","i","s","o","r","d","e","r","s","\n","U+2022",
      " ","D","i","g","e","s","t","i","v","e"," ","i","s","s","u","e","s",
      "\n","\n","W","e","'","r","e"," ","c","u","r","r","e","n","t","l","y",
      " ","o","f","f","e","r","i","n","g"," ","$","3","0"," ","o","f","f",
      " ","i","n","i","t","i","a","l"," ","c","o","n","s","u","l","t","a",
      "t","i","o","n","s"," ","f","o","r"," ","h","e","a","l","t","h","c",
      "a","r","e"," ","p","r","o","f","e","s","s","i","o","n","a","l","s",
      " ","i","n"," ","o","u","r"," ","c","o","m","m","u","n","i","t","y",
      ".","\n","\n","W","o","u","l","d"," ","y","o","u"," ","b","e"," ","i",
      "n","t","e","r","e","s","t","e","d"," ","i","n"," ","l","e","a","r",
      "n","i","n","g"," ","m","o","r","e"," ","a","b","o","u","t"," ","h",
      "o","w"," ","a","c","u","p","u","n","c","t","u","r","e"," ","c","o",
      "u","l","d"," ","b","e","n","e","f","i","t"," ","y","o","u"," ","o",
      "r"," ","y","o","u","r"," ","p","a","t","i","e","n","t","s","?","\n",
      "\n","W","a","r","m"," ","r","e","g","a","r","d","s",",">>
ACU_SUBJECT ==
    <<"P","r","o","f","e","s","s","i","o","n","a","l"," ","I","n","t","r",
      "o","d","u","c","t","i","o","n"," ","-"," ","A","v","i","c","e","n",
      "n","a"," ","A","c","u","p","u","n","c","t","u","r","e">>
BEST_REGARDS ==
    <<"B","e","s","t"," ","r","e","g","a","r","d","s",",","\n">>
NOFA_BC ==
    <<"N","O","F","A"," ","B","C">>
ACUPUNCTURE ==
    <<"a","c","u","p","u","n","c","t","u","r","e">>

\* str.endswith
EndsWith(s, suffix) ==
    /\ Len(suffix) <= Len(s)
    /\ SubSeq(s, Len(s) - Len(suffix) + 1, Len(s)) = suffix

\* get_opt_out_text / get_legal_text: the environment's text when it is set
\* and not empty, otherwise the default.
get_opt_out_text ==
    IF env.OPT_OUT_TEXT # <<>> THEN env.OPT_OUT_TEXT ELSE DEFAULT_UNSUBSCRIBE_TEXT
get_legal_text ==
    IF env.LEGAL_TEXT # <<>> THEN env.LEGAL_TEXT ELSE DEFAULT_LEGAL_ADDRESS

\* The body before the footer: rstrip(), then the signature unless the body
\* ends with from_name already.
signed_body(body, from_name) ==
    LET clean_body == RStrip(body)
    IN  IF from_name # <<>> /\ ~EndsWith(clean_body, from_name)
        THEN (IF ~EndsWith(clean_body, <<"\n", "\n">>)
              THEN IF EndsWith(clean_body, <<"\n">>)
                   THEN clean_body \o <<"\n">>
                   ELSE clean_body \o <<"\n", "\n">>
              ELSE clean_body)
             \o BEST_REGARDS \o from_name
        ELSE clean_body

\* decorate_email: the tuple (subject, decorated_body) as a record.
decorate_email(subject, body, from_name) ==
    [subject |-> subject,
     body |-> signed_body(body, from_name)
              \o <<"\n", "\n">> \o get_opt_out_text \o <<"\n">> \o get_legal_text]

create_acupuncture_template(contact_name, company, from_name) ==
    decorate_email(ACU_SUBJECT,
                   ACU_DEAR \o contact_name \o ACU_INTRO \o company \o ACU_REST,
                   from_name)

create_generic_b2b_template(contact_name, company, industry, from_name) ==
    LET industry_text == IF industry # <<>>
                         THEN B2B_IN_THE \o industry \o B2B_INDUSTRY
                         ELSE <<>>
    IN  decorate_email(B2B_SUBJECT \o company,
                       B2B_HELLO \o contact_name \o B2B_CAME_ACROSS \o company
                           \o industry_text \o B2B_REST,
                       from_name)

\* LLMClient._create_fallback_draft: subject and body of the draft; the
\* caller has resolved the .get defaults of lead_data and campaign_config.
_create_fallback_draft(contact_name, company, industry, from_name) ==
    IF Lower(industry) = ACUPUNCTURE
    THEN create_acupuncture_template(contact_name, company, from_name)
    ELSE create_generic_b2b_template(contact_name, company, industry, from_name)

\* No Mail was handed to the SendGrid client.
NoMail == [handed |-> FALSE]

\* EmailSender.send_email: the result and the Mail handed to
\* sg_client.send, whose answer is status_code (0 when send() raised).
send_email(to_email, subject, body, from_name, status_code) ==
    IF ~env.SENDGRID_API_KEY
    THEN [success |-> FALSE, error |-> "Email not configured", mail |-> NoMail]
    ELSE LET mail == [handed |-> TRUE, to |-> to_email, subject |-> subject,
                      body |-> body]
         IN  IF status_code \in {200, 202}
             THEN [success |-> TRUE, error |-> None, mail |-> mail]
             ELSE IF status_code = 0
             THEN [success |-> FALSE, error |-> "exception", mail |-> mail]
             ELSE [success |-> FALSE, error |-> "SendGrid API error", mail |-> mail]

\* EmailSender.send_draft_email; a draft without "from_name" is signed
\* "NOFA BC".
send_draft_email(draft_data, lead_data, status_code) ==
    LET to_email == Get(lead_data, "email", <<>>)
        from_name == Get(draft_data, "from_name", NOFA_BC)
        final == decorate_email(Get(draft_data, "subject", <<>>),
                                Get(draft_data, "body", <<>>), from_name)
    IN  IF to_email = <<>>
        THEN [success |-> FALSE, error |-> "No recipient email provided",
              mail |-> NoMail]
        ELSE send_email(to_email, final.subject, final.body, from_name, status_code)

(***************************************************************************)
(* src/services/agent-runner/agents/leadgen.py                             *)
(***************************************************************************)
\* LeadGenAgent.__init__
LeadGenAgent(job_id, campaign_config) ==
    [job_id |-> job_id, campaign_config |-> campaign_config,
     planner |-> TaskPlanner(campaign_config),
     leads_generated |-> 0, drafts_created |-> 0]

\* No LeadGenAgent has been created.
NoAgent == [job_id |-> None]
AgentIdle == agent = NoAgent

\* A JSON null in a campaign configuration.
Null == [null |-> TRUE]

\* "for term in search_terms[:3]"
MaxMockResults == 3

\* LeadGenAgent.mock_web_search: one result for each of the first 3 terms.
mock_web_search(search_terms) ==
    [i \in 1..Min(MaxMockResults, Len(search_terms)) |->
        [title |-> "Business related to " \o search_terms[i],
         search_term |-> search_terms[i]]]

\* LeadGenAgent.mock_enrich_leads: one lead for each search result.
mock_enrich_leads(self, search_results) ==
    [i \in DOMAIN search_results |->
        [company |-> search_results[i].search_term \o " Company",
         contactName |-> "John Doe",
         city |-> Get(Get(self.campaign_config, "geo", <<>>), "center_city", "Unknown"),
         state |-> Get(Get(self.campaign_config, "geo", <<>>), "state", "Unknown")]]

\* LeadGenAgent.mock_draft_emails: one draft for each lead; leadId i stands
\* for f"lead_{len(drafts) + 1}".
mock_draft_emails(self, leads_in, job_data) ==
    [i \in DOMAIN leads_in |->
        [jobId |-> self.job_id, leadId |-> i, status |-> "draft"]]

\* plan_search_terms raises on a configuration whose "geo" is null
\* (geo.get on None); run_agent_loop catches it.
plan_raises(campaign_config) == Get(campaign_config, "geo", <<>>) = Null

\* LeadGenAgent.run_agent_loop: the dictionary returned.
leadgen_run_agent_loop(self, job_data) ==
    IF plan_raises(self.campaign_config)
    THEN [status |-> "failed", error |-> "AttributeError"]
    ELSE LET search_terms ==
                 plan_search_terms(self.planner, self.job_id, self.campaign_config)
             search_results == mock_web_search(search_terms)
             enriched_leads == mock_enrich_leads(self, search_results)
             drafts == mock_draft_emails(self, enriched_leads, job_data)
         IN  [status |-> "completed",
              leads_generated |-> Len(enriched_leads),
              drafts_created |-> Len(drafts),
              search_terms_used |-> search_terms]

\* The agent after run_agent_loop: the counters are set on success only.
agent_after_run(self, job_data) ==
    LET result == leadgen_run_agent_loop(self, job_data)
    IN  IF result.status = "completed"
        THEN [self EXCEPT !.leads_generated = result.leads_generated,
                          !.drafts_created = result.drafts_created]
        ELSE self

ApiInit ==
    /\ campaigns_db = <<>>
    /\ jobs_db = <<>>
    /\ drafts_db = <<>>
    /\ tasks = {}
    /\ messages = 0

\* The idle values of the variables a specification does not use.
\* No RunEvent logged, no get_global_settings call in flight.
StoreQuiet ==
    /\ store_events = [r \in StoreRunIds |-> Absent]
    /\ reads = [r \in Readers |-> NoRead]

StoreIdle ==
    /\ db = None
    /\ store_jobs = [j \in StoreJobIds |-> Absent]
    /\ store_drafts = [d \in StoreDraftIds |-> Absent]
    /\ store_settings = Absent
    /\ StoreQuiet

CallIdle ==
    /\ env = [send_cap_per_run |-> DefaultSendCapPerRun,
              daily_send_cap |-> DefaultDailySendCap]
    /\ call = NoCall
    /\ ret = NoCall

Init ==
    /\ PlannerIdle
    /\ AgentIdle
    /\ ApiInit
    /\ leads \in {[l \in LeadIds |-> d] : d \in {YAHOO_COM, ACME_COM}}
    /\ StoreIdle
    /\ CallIdle

Next ==
    \/ \E p \in Presets : create_campaign(p)
    \/ \E c \in 1..MaxCampaigns, n \in PlannedCounts : create_job(c, n)
    \/ \E c \in 1..MaxCampaigns : create_job_unknown_campaign(c)
    \/ run_agent
    \/ run_context_aware_agent
    \/ \E d \in 1..(MaxJobs * MaxDraftsPerRun) : approve_draft(d)
    \/ \E d \in 1..(MaxJobs * MaxDraftsPerRun) : send_draft(d)
    \/ \E d \in 1..(MaxJobs * MaxDraftsPerRun) : draft_not_found(d)

Spec == Init /\ [][Next]_vars

(***************************************************************************)
(* Specification SpecJobs: the job-creation entry point of src/api/index.py*)
(* and the background runs it launches.  approve_draft and send_draft      *)
(* leave tasks and the status of a job alone and are left out.             *)
(***************************************************************************)
JobsNext ==
    \/ \E p \in Presets : create_campaign(p)
    \/ \E c \in 1..MaxCampaigns, n \in PlannedCounts : create_job(c, n)
    \/ \E c \in 1..MaxCampaigns : create_job_unknown_campaign(c)
    \/ run_agent
    \/ run_context_aware_agent

SpecJobs == Init /\ [][JobsNext]_vars

\* SpecJobs with the background tasks scheduled fairly: Starlette runs a
\* task that was added once the response has been sent.
SpecJobsFair ==
    /\ SpecJobs
    /\ WF_vars(run_agent)
    /\ WF_vars(run_context_aware_agent)

(***************************************************************************)
(* Specification SpecLimits: Guardrails.check_send_limits over a store     *)
(* that holds one job or none, for every send cap configuration below.     *)
(***************************************************************************)
ApiIdle ==
    /\ ApiInit
    /\ leads = [l \in LeadIds |-> ACME_COM]

\* A Job document; sentCount is the only field check_send_limits reads.
JobDoc(planned, sent, status) ==
    Doc([Job(planned) EXCEPT !.sentCount = sent, !.status = status])

\* SEND_CAP_PER_RUN / DAILY_SEND_CAP settings of the environment: the
\* defaults, a small per-run cap below the daily cap, and a daily cap below
\* the per-run cap (nothing in Guardrails.__init__ orders the two).
EnvChoices ==
    {[send_cap_per_run |-> DefaultSendCapPerRun, daily_send_cap |-> DefaultDailySendCap],
     [send_cap_per_run |-> MaxCount - 1, daily_send_cap |-> MaxCount],
     [send_cap_per_run |-> MaxCount, daily_send_cap |-> MaxCount - 1]}

LimitsInit ==
    /\ PlannerIdle
    /\ AgentIdle
    /\ ApiIdle
    /\ db \in {"client", None}
    /\ store_jobs \in [StoreJobIds ->
           {Absent} \cup {JobDoc(MaxCount, n, "running") : n \in 0..MaxCount}]
    /\ store_drafts = [d \in StoreDraftIds |-> Absent]
    /\ store_settings = Absent
    /\ StoreQuiet
    /\ env \in EnvChoices
    /\ call = NoCall
    /\ ret = NoCall

\* The caller takes the returned value; the policy object is idle again.
Return ==
    /\ call # NoCall
    /\ call' = NoCall
    /\ ret' = NoCall
    /\ UNCHANGED <<apiVars, storeVars, agentVars, env>>

CheckSendLimits ==
    \E job_id \in StoreJobIds, planned \in 0..MaxCount, fault \in BOOLEAN :
        /\ call = NoCall
        /\ call' = [op |-> "check_send_limits", job_id |-> job_id,
                    planned_send_count |-> planned, fault |-> fault]
        /\ ret' = check_send_limits(job_id, planned, fault)
        /\ UNCHANGED <<apiVars, storeVars, agentVars, env>>

LimitsNext ==
    \/ CheckSendLimits
    \/ Return

SpecLimits == LimitsInit /\ [][LimitsNext]_vars

(***************************************************************************)
(* Specification SpecGuardrails: check_domain_restrictions and             *)
(* validate_lead_data over every settings document below.                  *)
(***************************************************************************)
Upper(s) ==
    [i \in DOMAIN s |->
        IF s[i] \in Range(LowerCase)
        THEN UpperCase[CHOOSE k \in DOMAIN LowerCase : LowerCase[k] = s[i]]
        ELSE s[i]]

\* Domains an operator may have put on the allow list or the block list.
DomainPool == {GMAIL_COM, ACME_MIXED}

\* Lists of at most MaxListLen domains of the pool.
DomainLists ==
    UNION {[1..n -> DomainPool] : n \in 0..MaxListLen}

SettingsDocs ==
    {Absent} \cup
    {Doc([allowDomains |-> a, blockDomains |-> b,
          unsubscribeText |-> DEFAULT_UNSUBSCRIBE_TEXT,
          legalAddress |-> DEFAULT_LEGAL_ADDRESS]) : a \in DomainLists, b \in DomainLists}

PersonalDomains == {personal_domains[i] : i \in DOMAIN personal_domains}

DomainInputs ==
    PersonalDomains \cup {Upper(d) : d \in PersonalDomains}
    \cup {YAHOO_MIXED, ACME_COM, ACME_MIXED, CLINIC_ORG}

\* Lead data as the Lead schema types it; an absent key reads like the
\* empty string (company, email, domain) or like 0 (confidence).
LeadInputs ==
    [company : {<<>>, COMPANY_A, COMPANY_ACME},
     email : {<<>>, EMAIL_OK, EMAIL_NO_TLD, EMAIL_TWO_AT, EMAIL_SHORT_TLD, EMAIL_NEWLINE},
     domain : {<<>>, ACME_COM, YAHOO_MIXED, CLINIC_ORG},
     confidence : {0, 2, 3, 9}]

GuardrailsInit ==
    /\ PlannerIdle
    /\ AgentIdle
    /\ ApiIdle
    /\ db \in {"client", None}
    /\ store_jobs = [j \in StoreJobIds |-> Absent]
    /\ store_drafts = [d \in StoreDraftIds |-> Absent]
    /\ store_settings \in SettingsDocs
    /\ StoreQuiet
    /\ CallIdle

\* await guardrails.check_domain_restrictions(domain)
CheckDomainRestrictions ==
    \E domain \in DomainInputs, fault \in BOOLEAN :
        /\ call = NoCall
        /\ call' = [op |-> "check_domain_restrictions", domain |-> domain,
                    fault |-> fault, settings |-> get_global_settings(fault)]
        /\ ret' = check_domain_restrictions(domain, fault)
        /\ store_settings' = settings_after_get(fault)
        /\ UNCHANGED <<apiVars, store_events, reads, db, store_jobs, store_drafts, agentVars, env>>

\* await guardrails.validate_lead_data(lead_data); the settings are read
\* only when the lead has a domain.
ValidateLeadData ==
    \E lead_data \in LeadInputs, fault \in BOOLEAN :
        /\ call = NoCall
        /\ call' = [op |-> "validate_lead_data", lead_data |-> lead_data,
                    fault |-> fault, settings |-> get_global_settings(fault)]
        /\ ret' = validate_lead_data(lead_data, fault)
        /\ store_settings' = IF lead_data.domain # <<>>
                             THEN settings_after_get(fault) ELSE store_settings
        /\ UNCHANGED <<apiVars, store_events, reads, db, store_jobs, store_drafts, agentVars, env>>

GuardrailsNext ==
    \/ CheckDomainRestrictions
    \/ ValidateLeadData
    \/ Return

SpecGuardrails == GuardrailsInit /\ [][GuardrailsNext]_vars


(***************************************************************************)
(* Specification SpecStore: the FirestoreStore methods on one job          *)
(* document, one draft document and the settings document.                 *)
(***************************************************************************)
StoreInit ==
    /\ PlannerIdle
    /\ AgentIdle
    /\ ApiIdle
    /\ db \in {"client", None}
    /\ store_jobs = [j \in StoreJobIds |-> Absent]
    /\ store_drafts = [d \in StoreDraftIds |-> Absent]
    /\ store_settings = Absent
    /\ StoreQuiet
    /\ CallIdle

StoreNext ==
    \/ \E j \in StoreJobIds, fault \in BOOLEAN :
           store_create_job(j, Job(MaxCount), fault)
    \/ \E j \in StoreJobIds, st \in JobStatus, fault \in BOOLEAN,
          sent_count \in {NoArg, Arg(MaxCount)}, cost \in {NoArg, Arg(1)} :
           update_job_status(j, st, sent_count, cost, fault)
    \/ \E d \in StoreDraftIds, j \in StoreJobIds, fault \in BOOLEAN :
           store_create_draft(d, Draft(j, "lead_1"), fault)
    \/ \E d \in StoreDraftIds, st \in DraftStatus, fault \in BOOLEAN,
          reviewer \in {None, "operator"}, message_id \in {None, "sg_1"} :
           update_draft_status(d, st, reviewer, message_id, fault)
    \/ \E fault \in BOOLEAN : store_get_global_settings(fault)
    \/ \E r \in StoreRunIds, j \in StoreJobIds, fault \in BOOLEAN :
           log_run_event(r, RunEvent(j, "compliance", "unsubscribe_request"), fault)
    \/ Return

SpecStore == StoreInit /\ [][StoreNext]_vars

(***************************************************************************)
(* Specification SpecSettings: callers of get_global_settings running side *)
(* by side on one settings document, which starts absent or stored.        *)
(***************************************************************************)
SettingsInit ==
    /\ PlannerIdle
    /\ AgentIdle
    /\ ApiIdle
    /\ db \in {"client", None}
    /\ store_jobs = [j \in StoreJobIds |-> Absent]
    /\ store_drafts = [d \in StoreDraftIds |-> Absent]
    /\ store_settings \in SettingsDocs
    /\ StoreQuiet
    /\ CallIdle

SettingsNext ==
    \/ \E r \in Readers, fault \in BOOLEAN : settings_get(r, fault)
    \/ \E r \in Readers, fault \in BOOLEAN : settings_set(r, fault)
    \/ \E r \in Readers : settings_return(r)

SpecSettings == SettingsInit /\ [][SettingsNext]_vars


(***************************************************************************)
(* Specification SpecCompliance: ensure_email_compliance on the subjects   *)
(* and bodies below, and again on its own output, for every settings       *)
(* document below.                                                         *)
(***************************************************************************)
\* '\n\n'
SEP_UNSUBSCRIBE ==
    <<"\n","\n">>
\* '\n'
SEP_LEGAL ==
    <<"\n">>
\* 'Reply NO to leave this list'
UNSUB_CUSTOM ==
    <<"R","e","p","l","y"," ","N","O"," ","t","o"," ","l","e","a","v","e",
      " ","t","h","i","s"," ","l","i","s","t">>
\* 'Reply NO to leave this list \n'
UNSUB_TRAILING ==
    <<"R","e","p","l","y"," ","N","O"," ","t","o"," ","l","e","a","v","e",
      " ","t","h","i","s"," ","l","i","s","t"," ","\n">>
\* 'Acme Clinic, 1 Main St'
LEGAL_CUSTOM ==
    <<"A","c","m","e"," ","C","l","i","n","i","c",","," ","1"," ","M","a",
      "i","n"," ","S","t">>
\* 'Hello Bob,\nwe help clinics grow.'
BODY_PLAIN ==
    <<"H","e","l","l","o"," ","B","o","b",",","\n","w","e"," ","h","e","l",
      "p"," ","c","l","i","n","i","c","s"," ","g","r","o","w",".">>
\* 'Hello Bob,\nsee you soon. \n\n'
BODY_TRAILING ==
    <<"H","e","l","l","o"," ","B","o","b",",","\n","s","e","e"," ","y","o",
      "u"," ","s","o","o","n","."," ","\n","\n">>
\* 'Hello Bob,\nplease stop by our office.'
BODY_KEYWORD ==
    <<"H","e","l","l","o"," ","B","o","b",",","\n","p","l","e","a","s","e",
      " ","s","t","o","p"," ","b","y"," ","o","u","r"," ","o","f","f","i",
      "c","e",".">>
\* 'GET RICH QUICK with our MIRACLE plan, FREE TODAY.'
BODY_SPAM ==
    <<"G","E","T"," ","R","I","C","H"," ","Q","U","I","C","K"," ","w","i",
      "t","h"," ","o","u","r"," ","M","I","R","A","C","L","E"," ","p","l",
      "a","n",","," ","F","R","E","E"," ","T","O","D","A","Y",".">>
\* 'Hello Bob.\nreply no to leave this list'
BODY_CUSTOM_UNSUB ==
    <<"H","e","l","l","o"," ","B","o","b",".","\n","r","e","p","l","y"," ",
      "n","o"," ","t","o"," ","l","e","a","v","e"," ","t","h","i","s"," ",
      "l","i","s","t">>
\* 'Introduction - Acupuncture'
SUBJECT_OK ==
    <<"I","n","t","r","o","d","u","c","t","i","o","n"," ","-"," ","A","c",
      "u","p","u","n","c","t","u","r","e">>
\* 'URGENT: final notice'
SUBJECT_URGENT ==
    <<"U","R","G","E","N","T",":"," ","f","i","n","a","l"," ","n","o","t",
      "i","c","e">>
\* '  '
SUBJECT_BLANK ==
    <<" "," ">>

\* Configured unsubscribe texts and legal addresses: the defaults, none,
\* and custom ones (one of them ending in whitespace).
UnsubscribeTexts == {DEFAULT_UNSUBSCRIBE_TEXT, <<>>, UNSUB_CUSTOM, UNSUB_TRAILING}
LegalAddresses == {DEFAULT_LEGAL_ADDRESS, <<>>, LEGAL_CUSTOM}

ComplianceSettingsDocs ==
    {Absent} \cup
    {Doc([allowDomains |-> <<>>, blockDomains |-> <<>>,
          unsubscribeText |-> u, legalAddress |-> a]) :
        u \in UnsubscribeTexts, a \in LegalAddresses}

Subjects ==
    {SUBJECT_OK, SUBJECT_URGENT, SUBJECT_BLANK, <<>>,
     [i \in 1..(MaxSubjectLen + 1) |-> "a"]}

Bodies ==
    {<<>>, BODY_PLAIN, BODY_TRAILING, BODY_KEYWORD, BODY_SPAM, BODY_CUSTOM_UNSUB,
     BODY_PLAIN \o SEP_UNSUBSCRIBE \o DEFAULT_UNSUBSCRIBE_TEXT,
     BODY_PLAIN \o SEP_LEGAL \o DEFAULT_LEGAL_ADDRESS \o <<" ", "\n">>,
     BODY_PLAIN \o SEP_LEGAL \o LEGAL_CUSTOM,
     BODY_PLAIN \o SEP_UNSUBSCRIBE \o Upper(DEFAULT_UNSUBSCRIBE_TEXT)
         \o SEP_LEGAL \o DEFAULT_LEGAL_ADDRESS}

ComplianceInit ==
    /\ PlannerIdle
    /\ AgentIdle
    /\ ApiIdle
    /\ db \in {"client", None}
    /\ store_jobs = [j \in StoreJobIds |-> Absent]
    /\ store_drafts = [d \in StoreDraftIds |-> Absent]
    /\ store_settings \in ComplianceSettingsDocs
    /\ StoreQuiet
    /\ CallIdle

\* await compliance.ensure_email_compliance({"subject": ..., "body": ...})
EnsureEmailCompliance ==
    \E subject \in Subjects, body \in Bodies, fault \in BOOLEAN :
        /\ call = NoCall
        /\ call' = [op |-> "ensure_email_compliance", subject |-> subject,
                    body |-> body, fault |-> fault,
                    settings |-> get_global_settings(fault),
                    round |-> 1, previous |-> NoCall]
        /\ ret' = ensure_email_compliance(subject, body, fault)
        /\ store_settings' = settings_after_get(fault)
        /\ UNCHANGED <<apiVars, store_events, reads, db, store_jobs, store_drafts, agentVars, env>>

\* The caller hands the returned subject and body to ensure_email_compliance
\* again, under the same backend condition.
EnsureEmailComplianceAgain ==
    /\ call.op = "ensure_email_compliance"
    /\ call.round < MaxRounds
    /\ call' = [call EXCEPT !.subject = ret.modified_subject,
                            !.body = ret.modified_body,
                            !.settings = get_global_settings(call.fault),
                            !.round = @ + 1,
                            !.previous = ret]
    /\ ret' = ensure_email_compliance(ret.modified_subject, ret.modified_body, call.fault)
    /\ store_settings' = settings_after_get(call.fault)
    /\ UNCHANGED <<apiVars, store_events, reads, db, store_jobs, store_drafts, agentVars, env>>

ComplianceNext ==
    \/ EnsureEmailCompliance
    \/ EnsureEmailComplianceAgain
    \/ Return

SpecCompliance == ComplianceInit /\ [][ComplianceNext]_vars

(***************************************************************************)
(* Specification SpecPlanner: one TaskPlanner, asked for search terms and  *)
(* for its next step.                                                      *)
(***************************************************************************)
Industries == {"", "acupuncture"}
Cities == {"", "Austin"}
States == {"", "TX"}
KeywordPool == {"pain", "wellness"}

\* Lists of at most MaxKeywords keywords.
KeywordLists == UNION {[1..n -> KeywordPool] : n \in 0..MaxKeywords}

\* The geo dictionary of a campaign: with or without its keys.
Geos ==
    {[center_city |-> c, state |-> st] : c \in Cities, st \in States}
    \cup {[state |-> st] : st \in States}
    \cup {<<>>}

\* Campaign configurations handed to plan_search_terms; ones without
\* keywords, and ones with a further key, among them.
CampaignConfigs ==
    {[industry |-> i, geo |-> g, keywords |-> k] :
        i \in Industries, g \in Geos, k \in KeywordLists}
    \cup {[industry |-> i, geo |-> g, keywords |-> k, preset |-> "acu"] :
        i \in Industries, g \in Geos, k \in {kl \in KeywordLists : Len(kl) = MaxKeywords}}
    \cup {[industry |-> i, geo |-> g] : i \in Industries, g \in Geos}
    \cup {[keywords |-> <<"pain">>]}

\* The configurations a planner is constructed with.
OwnConfigs ==
    {<<>>, [industry |-> "chiropractic", geo |-> [center_city |-> "Reno", state |-> "NV"],
            keywords |-> <<"back">>]}

PlannerJobIds == {"job_1", "job_2"}

PlannerInit ==
    /\ ApiIdle
    /\ StoreIdle
    /\ CallIdle
    /\ planner \in {TaskPlanner(c) : c \in OwnConfigs}
    /\ returned = <<>>
    /\ agent = NoAgent

\* planner.plan_search_terms(job_id, campaign_config)
PlanSearchTerms ==
    \E job_id \in PlannerJobIds, campaign_config \in CampaignConfigs :
        /\ call = NoCall
        /\ call' = [op |-> "plan_search_terms", job_id |-> job_id,
                    campaign_config |-> campaign_config]
        /\ ret' = plan_search_terms(planner, job_id, campaign_config)
        /\ UNCHANGED <<apiVars, storeVars, agentVars, env>>

\* planner.get_next_step(current_state); the caller notes the step it is
\* given for a state that is not completed, for at most MaxCalls such calls.
GetNextStep ==
    \E current_state \in {<<>>, [status |-> "running"], [status |-> "completed"]} :
        /\ call = NoCall
        /\ current_state = [status |-> "completed"] \/ Len(returned) < MaxCalls
        /\ call' = [op |-> "get_next_step", current_state |-> current_state]
        /\ ret' = get_next_step(planner, current_state)
        /\ planner' = planner_after_next_step(planner, current_state)
        /\ returned' = IF current_state = [status |-> "completed"]
                       THEN returned
                       ELSE Append(returned, get_next_step(planner, current_state))
        /\ UNCHANGED <<apiVars, storeVars, agent, env>>

\* The counters of a job and the number of leads staged: negative, zero
\* and positive values, and job data that lacks a counter.
Counters == -1..2
CounterDicts ==
    {<<>>}
    \cup {[plannedCount |-> p] : p \in Counters}
    \cup {[sentCount |-> n] : n \in Counters}
    \cup {[plannedCount |-> p, sentCount |-> n] : p \in Counters, n \in Counters}

\* planner.should_continue(job_data, leads_count)
ShouldContinue ==
    \E job_data \in CounterDicts, leads_count \in Counters :
        /\ call = NoCall
        /\ call' = [op |-> "should_continue", job_data |-> job_data,
                    leads_count |-> leads_count]
        /\ ret' = should_continue(planner, job_data, leads_count)
        /\ UNCHANGED <<apiVars, storeVars, agentVars, env>>

PlannerNext ==
    \/ PlanSearchTerms
    \/ GetNextStep
    \/ ShouldContinue
    \/ Return

SpecPlanner == PlannerInit /\ [][PlannerNext]_vars

(***************************************************************************)
(* Specification SpecLeadGen: a LeadGenAgent created for a job and run.    *)
(* The awaits of run_agent_loop are sleeps between steps that work on its  *)
(* local lists only, so a run is one step.                                 *)
(***************************************************************************)
\* The configurations an agent is created with: with and without keywords
\* and location, and with a null geo.
LeadGenConfigs ==
    {[industry |-> i, geo |-> g, keywords |-> k] :
        i \in Industries, g \in Geos \cup {Null},
        k \in {<<>>, <<"pain">>, <<"pain", "wellness">>}}

\* The job data handed to run_agent_loop.
JobDatas ==
    {<<>>} \cup {[plannedCount |-> n, sentCount |-> 0] : n \in 0..MaxCount}

LeadGenInit ==
    /\ PlannerIdle
    /\ ApiIdle
    /\ StoreIdle
    /\ CallIdle
    /\ agent \in {LeadGenAgent(j, c) : j \in PlannerJobIds, c \in LeadGenConfigs}

\* await agent.run_agent_loop(job_data)
RunAgentLoop ==
    \E job_data \in JobDatas :
        /\ call = NoCall
        /\ call' = [op |-> "run_agent_loop", job_data |-> job_data]
        /\ ret' = leadgen_run_agent_loop(agent, job_data)
        /\ agent' = agent_after_run(agent, job_data)
        /\ UNCHANGED <<apiVars, storeVars, planner, returned, env>>

LeadGenNext ==
    \/ RunAgentLoop
    \/ Return

SpecLeadGen == LeadGenInit /\ [][LeadGenNext]_vars

(***************************************************************************)
(* Specification SpecRoutes: the draft endpoints of routes/drafts.py on    *)
(* the router's dictionary, which is empty when the module is loaded.      *)
(***************************************************************************)
RoutesInit ==
    /\ PlannerIdle
    /\ AgentIdle
    /\ campaigns_db = <<>>
    /\ jobs_db = <<>>
    /\ tasks = {}
    /\ messages = 0
    /\ leads = [l \in LeadIds |-> ACME_COM]
    /\ drafts_db = [d \in RouteDraftIds |-> Absent]
    /\ StoreIdle
    /\ CallIdle

RoutesNext ==
    \/ \E d \in RouteDraftIds : route_approve_draft(d)
    \/ \E d \in RouteDraftIds : route_reject_draft(d)
    \/ \E d \in RouteDraftIds : route_send_draft(d)

SpecRoutes == RoutesInit /\ [][RoutesNext]_vars

(***************************************************************************)
(* Specification SpecSend: EmailSender.send_draft_email on drafts written  *)
(* by hand and drafts produced by the template fallback, with and without  *)
(* a SendGrid key and custom footer texts in the environment.              *)
(***************************************************************************)
\* 'there': lead_data.get("contactName", "there")
THERE == <<"t","h","e","r","e">>

SendEnvs ==
    [send_cap_per_run : {DefaultSendCapPerRun},
     daily_send_cap : {DefaultDailySendCap},
     SENDGRID_API_KEY : BOOLEAN,
     OPT_OUT_TEXT : {<<>>, UNSUB_CUSTOM},
     LEGAL_TEXT : {<<>>, LEGAL_CUSTOM}]

\* Drafts: written by hand, without and with a from_name, and the drafts
\* _create_fallback_draft returns (subject and body, no from_name).
SendDrafts ==
    {[subject |-> SUBJECT_OK, body |-> b] : b \in {<<>>, BODY_PLAIN, BODY_TRAILING}}
    \cup {[subject |-> SUBJECT_OK, body |-> BODY_PLAIN, from_name |-> f] :
              f \in {<<>>, COMPANY_ACME}}
    \cup {_create_fallback_draft(THERE, c, i, NOFA_BC) :
              c \in {COMPANY_A, COMPANY_ACME},
              i \in {<<>>, COMPANY_A, Upper(ACUPUNCTURE)}}

SendLeads == {<<>>, [email |-> EMAIL_OK]}

\* What sg_client.send answers: accepted, an API error, or an exception (0).
StatusCodes == {202, 500, 0}

SendInit ==
    /\ PlannerIdle
    /\ AgentIdle
    /\ ApiIdle
    /\ StoreIdle
    /\ env \in SendEnvs
    /\ call = NoCall
    /\ ret = NoCall

\* await email_sender.send_draft_email(draft_data, lead_data)
SendDraftEmail ==
    \E draft_data \in SendDrafts, lead_data \in SendLeads, status_code \in StatusCodes :
        /\ call = NoCall
        /\ call' = [op |-> "send_draft_email", draft_data |-> draft_data,
                    lead_data |-> lead_data, status_code |-> status_code]
        /\ ret' = send_draft_email(draft_data, lead_data, status_code)
        /\ UNCHANGED <<apiVars, storeVars, agentVars, env>>

SendNext ==
    \/ SendDraftEmail
    \/ Return

SpecSend == SendInit /\ [][SendNext]_vars

(***************************************************************************)
(* Claims                                                                  *)
(***************************************************************************)

\* C1: a send request on a draft whose status is "draft" is rejected: in no
\* step does a draft go from "draft" to "sent" or get a messageId.
C1_SendFromDraftRejected ==
    [][\A d \in DOMAIN drafts_db :
          drafts_db[d].status = "draft" =>
              /\ drafts_db'[d].status # "sent"
              /\ drafts_db'[d].messageId = drafts_db[d].messageId]_vars

\* C2: job terminal states are absorbing: a stored job whose status is
\* "done" or "failed" keeps that status in every later step.
C2_TerminalAbsorbing ==
    [][\A j \in StoreJobIds :
          (store_jobs[j].exists /\ store_jobs[j].data.status \in {"done", "failed"}) =>
              /\ store_jobs'[j].exists
              /\ store_jobs'[j].data.status = store_jobs[j].data.status]_vars

\* C3: a draft is "sent" only after the Guardrails check passed for its
\* lead: no draft whose lead has a denied domain is ever "sent".
C3_SentOnlyAfterGuardrails ==
    \A d \in DOMAIN drafts_db :
        drafts_db[d].status = "sent" =>
            check_domain_restrictions(leads[drafts_db[d].leadId], FALSE).allowed

\* The call in progress read an existing job from the store.
JobWasRead ==
    /\ call.op = "check_send_limits"
    /\ db # None
    /\ ~call.fault
    /\ store_jobs[call.job_id].exists

\* sentCount + planned of the call in progress.
PlannedTotal == store_jobs[call.job_id].data.sentCount + call.planned_send_count

CasedPersonalDomains ==
    PersonalDomains \cup {Upper(d) : d \in PersonalDomains} \cup {YAHOO_MIXED}

\* C5: check_domain_restrictions denies every consumer e-mail domain, in
\* any letter case, whatever the allow list and the block list hold.
C5_PersonalDomainsDenied ==
    (call.op = "check_domain_restrictions" /\ call.domain \in CasedPersonalDomains)
        => ~ret.allowed

\* gmail.com in upper case was denied although the allow list names gmail.com.
C5_Witness ==
    /\ call.op = "check_domain_restrictions"
    /\ call.domain = Upper(GMAIL_COM)
    /\ InList(GMAIL_COM, call.settings.allowDomains)
    /\ call.settings.blockDomains = <<>>
    /\ ~ret.allowed

\* x is on the list, letter case ignored.
OnList(x, list) == \E i \in DOMAIN list : Lower(list[i]) = Lower(x)

\* C6: a domain on the block list is denied with the block-list reason
\* whether or not the allow list names it, and with a non-empty allow list
\* every domain that is not on it is denied.
C6_BlockBeforeAllow ==
    call.op = "check_domain_restrictions" =>
        /\ OnList(call.domain, call.settings.blockDomains) =>
               ret = [allowed |-> FALSE, reason |-> "is in block list",
                      domain |-> call.domain]
        /\ (call.settings.allowDomains # <<>>
            /\ ~OnList(call.domain, call.settings.allowDomains)) => ~ret.allowed

\* acme.com was denied for the block list while both lists name Acme.COM.
C6_Witness ==
    /\ call.op = "check_domain_restrictions"
    /\ call.domain = ACME_COM
    /\ call.settings.allowDomains = <<ACME_MIXED>>
    /\ call.settings.blockDomains = <<ACME_MIXED>>
    /\ ret.reason = "is in block list"

\* The hard errors of a lead: a required field missing, the e-mail not
\* matching the address pattern, the domain denied.
HardError(lead_data, settings) ==
    \/ lead_data.company = <<>>
    \/ lead_data.email = <<>>
    \/ lead_data.domain = <<>>
    \/ ~_is_valid_email(lead_data.email)
    \/ ~domain_decision(lead_data.domain, settings).allowed

C7_WitnessDenied ==
    /\ call.op = "validate_lead_data"
    /\ call.lead_data.domain = YAHOO_MIXED
    /\ ~ret.valid


\* The places where sub occurs in s, and whether s begins with sub.
Occurrences(s, sub) ==
    {i \in 0..(Len(s) - Len(sub)) : \A j \in 1..Len(sub) : s[i + j] = sub[j]}
StartsWith(s, sub) == 0 \in Occurrences(s, sub)

\* A call of ensure_email_compliance has returned normally.
Ensured == call.op = "ensure_email_compliance"

\* C8: ensure_email_compliance is idempotent on the body for every input
\* and every GlobalSettings value, an empty configured unsubscribe text or
\* legal address included: applied to its own modified_body it returns the
\* same modified_body and the same issues.
C8_Idempotent ==
    (Ensured /\ call.round > 1) =>
        /\ ret.modified_body = call.previous.modified_body
        /\ ret.issues = call.previous.issues

C9_Lacking ==
    LET u == call.settings.unsubscribeText
        a == call.settings.legalAddress
    IN  /\ Ensured
        /\ u # <<>> /\ a # <<>>
        /\ RStrip(u) = u /\ RStrip(a) = a
        /\ ~Contains(u, a) /\ ~Contains(a, u)
        /\ ~Contains(Lower(call.body), Lower(u))
        /\ ~HasKeyword(call.body)
        /\ ~Contains(call.body, a)

C10_Listed(industry, location, keywords) ==
    LET perKeyword == IF location # "" THEN 2 ELSE 1
        generic == IF industry # "" /\ location # "" THEN 2 ELSE 0
        n == perKeyword * Len(keywords)
    IN  [i \in 1..(n + generic) |->
            IF i > n
            THEN industry \o (IF i = n + 1 THEN " services " ELSE " clinic ") \o location
            ELSE IF location = ""
            THEN industry \o " " \o keywords[i]
            ELSE IF i % 2 = 1
            THEN keywords[(i + 1) \div 2] \o " " \o location
            ELSE industry \o " " \o keywords[i \div 2] \o " " \o location]

\* C10: plan_search_terms returns, whatever the job id, the planner's own
\* state and the other keys of the configuration, the first 10 elements of
\* the list made from industry, city/state and keywords; the location is
\* "city, state" when both are given, the state when only it is given, and
\* unknown otherwise.  The list has at most 10 elements.
C10_PlanSearchTerms ==
    call.op = "plan_search_terms" =>
        LET cfg == call.campaign_config
            industry == IF "industry" \in DOMAIN cfg THEN cfg.industry ELSE ""
            geo == IF "geo" \in DOMAIN cfg THEN cfg.geo ELSE <<>>
            city == IF "center_city" \in DOMAIN geo THEN geo.center_city ELSE ""
            state == IF "state" \in DOMAIN geo THEN geo.state ELSE ""
            keywords == IF "keywords" \in DOMAIN cfg THEN cfg.keywords ELSE <<>>
            location == IF state = "" THEN ""
                        ELSE IF city = "" THEN state
                        ELSE city \o ", " \o state
            listed == C10_Listed(industry, location, keywords)
        IN  /\ Len(ret) <= 10
            /\ Len(ret) = IF Len(listed) < 10 THEN Len(listed) ELSE 10
            /\ \A i \in 1..Len(ret) : ret[i] = listed[i]

\* A configuration whose list is longer than 10 has been planned, on a
\* planner that has moved on from its first step.
C10_Witness ==
    /\ call.op = "plan_search_terms"
    /\ call.job_id = "job_2"
    /\ call.campaign_config =
           [industry |-> "acupuncture",
            geo |-> [center_city |-> "Austin", state |-> "TX"],
            keywords |-> [i \in 1..MaxKeywords |->
                            IF i % 2 = 1 THEN "pain" ELSE "wellness"],
            preset |-> "acu"]
    /\ planner.current_step > 0
    /\ Len(ret) = 10
    /\ ret[9] = "pain Austin, TX"
    /\ ret[10] = "acupuncture pain Austin, TX"


\* The drafts a step stores for job j.
DraftsCreated(j) ==
    {d \in DOMAIN drafts_db' : d \notin DOMAIN drafts_db /\ drafts_db'[d].jobId = j}

\* C11: when a job run completes normally, the job's sentCount is the
\* number of drafts that run created for the job and each of them has
\* status "draft"; with plannedCount 5 that number is 5.
C11_SentCountIsDraftsCreated ==
    [][\A j \in DOMAIN jobs_db :
          (jobs_db[j].status = "running" /\ jobs_db'[j].status \in {"completed", "done"}) =>
              /\ jobs_db'[j].sentCount = Cardinality(DraftsCreated(j))
              /\ \A d \in DraftsCreated(j) : drafts_db'[d].status = "draft"
              /\ jobs_db[j].plannedCount = Num(5) => Cardinality(DraftsCreated(j)) = 5]_vars

\* C12: the status history of every job is a prefix of queued -> running ->
\* (done | failed): a job is stored as "queued", and its status changes
\* only from "queued" to "running" and from "running" to "done" or "failed".
C12_StatusHistory ==
    [][\A j \in DOMAIN jobs_db' :
          IF j \notin DOMAIN jobs_db
          THEN jobs_db'[j].status = "queued"
          ELSE \/ jobs_db'[j].status = jobs_db[j].status
               \/ <<jobs_db[j].status, jobs_db'[j].status>> \in
                      {<<"queued", "running">>, <<"running", "done">>,
                       <<"running", "failed">>}]_vars

\* C13: a run never stages more leads nor creates more drafts than the
\* plannedCount of its job.
C13_NeverMoreThanPlanned ==
    (call.op = "run_agent_loop" /\ ret.status = "completed") =>
        LET planned == IF "plannedCount" \in DOMAIN call.job_data
                       THEN call.job_data.plannedCount ELSE 0
        IN  /\ ret.leads_generated <= planned
            /\ ret.drafts_created <= planned

\* C14: when a step of a job run raises, the job becomes "failed" and a
\* RunEvent describing the failure is persisted for it: every failed job
\* has a RunEvent in the store.
C14_FailureIsLogged ==
    \A j \in DOMAIN jobs_db :
        jobs_db[j].status = "failed" =>
            \E r \in StoreRunIds :
                store_events[r].exists /\ store_events[r].data.jobId = j

\* C15: on a fresh planner the calls of get_next_step with a state that is
\* not completed return plan_search_terms, web_search, enrich_leads,
\* draft_emails, await_approval, send_emails in that order and "done" from
\* then on; a call with a completed state returns "done" wherever the
\* cursor stands.
C15_StepsInOrder ==
    /\ \A i \in DOMAIN returned :
           returned[i] =
               IF i > 6 THEN "done"
               ELSE <<"plan_search_terms", "web_search", "enrich_leads",
                      "draft_emails", "await_approval", "send_emails">>[i]
    /\ (call.op = "get_next_step" /\ call.current_state = [status |-> "completed"])
           => ret = "done"

\* After a completed state was answered with "done" in the middle of the
\* sequence, the sequence went on to its end and "done" was returned twice.
C15_Witness ==
    /\ Len(returned) = 8
    /\ returned[6] = "send_emails"
    /\ returned[8] = "done"
    /\ call.op = "get_next_step"
    /\ call.current_state = [status |-> "completed"]
    /\ ret = "done"

\* C16: should_continue returns false exactly when sentCount >= plannedCount
\* or the number of leads >= plannedCount, a counter the job data lacks
\* being read as 0.
C16_ShouldContinue ==
    call.op = "should_continue" =>
        LET planned == IF "plannedCount" \in DOMAIN call.job_data
                       THEN call.job_data.plannedCount ELSE 0
            sent == IF "sentCount" \in DOMAIN call.job_data
                    THEN call.job_data.sentCount ELSE 0
        IN  ret = ~(sent >= planned \/ call.leads_count >= planned)

\* Job data without sentCount and one lead short of the planned count: the
\* run is told to continue.
C16_Witness ==
    /\ call.op = "should_continue"
    /\ call.job_data = [plannedCount |-> 2]
    /\ call.leads_count = 1
    /\ ret = TRUE

\* Leads equal to the planned count: the run is told to stop.
C16_WitnessStop ==
    /\ call.op = "should_continue"
    /\ call.job_data = [plannedCount |-> 2, sentCount |-> 0]
    /\ call.leads_count = 2
    /\ ret = FALSE

\* C17: a create operation of the store on an id that is already stored
\* fails and leaves the stored document unchanged.
C17_CreateFailsIfExists ==
    [][/\ \A j \in StoreJobIds :
              (call = NoCall /\ call'.op = "create_job" /\ call'.job_id = j
               /\ store_jobs[j].exists)
                  => (~ret'.ok /\ store_jobs'[j] = store_jobs[j])
       /\ \A d \in StoreDraftIds :
              (call = NoCall /\ call'.op = "create_draft" /\ call'.draft_id = d
               /\ store_drafts[d].exists)
                  => (~ret'.ok /\ store_drafts'[d] = store_drafts[d])]_vars

\* C18: with no backend connection (db is None) a Store operation reports
\* a failure the caller can tell apart from a normal result; in particular
\* get_global_settings does not return what a successful read of a store
\* holding the default settings returns.
C18_UnavailableIsReported ==
    (db = None /\ call.op = "get_global_settings") => ret # GlobalSettings

\* C19: get_global_settings returns the stored settings when they exist and
\* otherwise creates the defaults and returns them; however concurrent
\* first reads interleave, the settings document is written with the
\* default values only, and stored settings that differ from the defaults
\* are never overwritten.  (The one settings record is the one document
\* store_settings; a call whose get() or set() raised is the error path.)
C19_ReadResult(r) ==
    (reads[r].pc = "done" /\ ~reads[r].failed) =>
        IF reads[r].saw.exists
        THEN reads[r].result = reads[r].saw.data
        ELSE reads[r].result = GlobalSettings /\ store_settings.exists

C19_LazyDefaults ==
    /\ [](\A r \in Readers : C19_ReadResult(r))
    /\ [][/\ store_settings' # store_settings => store_settings' = Doc(GlobalSettings)
          /\ (store_settings.exists /\ store_settings.data # GlobalSettings)
                 => store_settings' = store_settings]_vars

\* Both callers read the absent document before either wrote it, and both
\* have written the defaults and returned them.
C19_Witness ==
    /\ \A r \in Readers :
           /\ reads[r].pc = "done"
           /\ ~reads[r].failed
           /\ ~reads[r].saw.exists
           /\ reads[r].result = GlobalSettings
    /\ store_settings = Doc(GlobalSettings)

\* C20: at most one background run is active per job id: creating a job
\* launches exactly one run, for the id of the job it creates, no run is
\* launched for a job id that exists already, and a job has a run
\* outstanding exactly while it has not reached a terminal status.
RunsOf(job_id) == {t \in tasks : t.job_id = job_id}

C20_OneRunPerJob ==
    /\ [](/\ \A t \in tasks : t.job_id \in DOMAIN jobs_db
          /\ \A j \in DOMAIN jobs_db :
                 Cardinality(RunsOf(j)) =
                     IF jobs_db[j].status \in {"completed", "failed"} THEN 0 ELSE 1)
    /\ [][\A t \in tasks' \ tasks :
              /\ tasks' = tasks \cup {t}
              /\ t.job_id \notin DOMAIN jobs_db
              /\ t.job_id = Len(jobs_db')]_vars

\* Two jobs were created and the run of the first has finished while the
\* run of the second is still outstanding.
C20_Witness ==
    \E j1, j2 \in DOMAIN jobs_db :
        /\ j1 # j2
        /\ RunsOf(j1) = {}
        /\ jobs_db[j1].status = "completed"
        /\ Cardinality(RunsOf(j2)) = 1
        /\ jobs_db[j2].status = "running"

\* C22: an approve, reject or send request for a draft id that is not
\* stored is answered NotFound (404) and leaves the stored drafts as they
\* are; it does not create the draft.
C22_NotFoundNoChange ==
    [][\A d \in RouteDraftIds :
           (call'.op \in {"approve", "reject", "send"} /\ call'.draft_id = d
            /\ ~drafts_db[d].exists)
               => (ret'.status_code = 404 /\ drafts_db' = drafts_db)]_vars

\* C23: in every reachable state every job has plannedCount >= 0 and
\* sentCount >= 0, whatever plannedCount the request carried.
C23_CountsNonNegative ==
    \A j \in DOMAIN jobs_db :
        /\ jobs_db[j].plannedCount.int => jobs_db[j].plannedCount.val >= 0
        /\ jobs_db[j].sentCount >= 0

\* C24: update_job_status and update_draft_status change only the status,
\* the update timestamp and the secondary fields that are passed (sentCount,
\* costUSD / reviewer, messageId); a secondary field that is not passed
\* keeps its stored value, every other field and every other document is
\* left unchanged, and a failed update changes nothing.
C24_JobUpdate(j) ==
    LET old == store_jobs[j]
        new == store_jobs'[j]
    IN  /\ UNCHANGED <<store_drafts, store_settings, store_events>>
        /\ \A k \in StoreJobIds \ {j} : store_jobs'[k] = store_jobs[k]
        /\ IF ret'.ok
           THEN /\ old.exists /\ new.exists
                /\ new.data.status = call'.status
                /\ new.data.updatedAt = "server"
                /\ new.data.plannedCount = old.data.plannedCount
                /\ new.data.sentCount = IF call'.sent_count.given
                                        THEN call'.sent_count.val
                                        ELSE old.data.sentCount
                /\ new.data.costUSD = IF call'.cost.given
                                      THEN call'.cost.val
                                      ELSE old.data.costUSD
           ELSE new = old

C24_DraftUpdate(d) ==
    LET old == store_drafts[d]
        new == store_drafts'[d]
    IN  /\ UNCHANGED <<store_jobs, store_settings, store_events>>
        /\ \A k \in StoreDraftIds \ {d} : store_drafts'[k] = store_drafts[k]
        /\ IF ret'.ok
           THEN /\ old.exists /\ new.exists
                /\ new.data.status = call'.status
                /\ new.data.updatedAt = "server"
                /\ new.data.jobId = old.data.jobId
                /\ new.data.leadId = old.data.leadId
                /\ new.data.reviewer = IF call'.reviewer # None
                                       THEN call'.reviewer
                                       ELSE old.data.reviewer
                /\ new.data.messageId = IF call'.message_id # None
                                        THEN call'.message_id
                                        ELSE old.data.messageId
           ELSE new = old

C24_PartialUpdate ==
    [][/\ (call = NoCall /\ call'.op = "update_job_status")
              => C24_JobUpdate(call'.job_id)
       /\ (call = NoCall /\ call'.op = "update_draft_status")
              => C24_DraftUpdate(call'.draft_id)]_vars

\* update_job_status without sent_count and cost succeeded on a job whose
\* sentCount and costUSD had been set before: both kept their values while
\* the status changed.
C24_Witness ==
    /\ call.op = "update_job_status"
    /\ ret = [ok |-> TRUE]
    /\ ~call.sent_count.given
    /\ ~call.cost.given
    /\ call.before.exists
    /\ call.before.data.sentCount = MaxCount
    /\ call.before.data.costUSD = 1
    /\ call.before.data.status # call.status
    /\ store_jobs[call.job_id].data.sentCount = MaxCount
    /\ store_jobs[call.job_id].data.costUSD = 1
    /\ store_jobs[call.job_id].data.status = call.status

\* C25: every job created through create_job eventually reaches a terminal
\* status ("completed" or "failed") when its background task is scheduled
\* fairly, whether the agent loop returns a completed or a failed result.
C25_JobsTerminate ==
    \A j \in 1..MaxJobs :
        [](j \in DOMAIN jobs_db =>
               <>(/\ j \in DOMAIN jobs_db
                  /\ jobs_db[j].status \in {"completed", "failed"}))

\* One job ended "failed" (its plannedCount made the loop fail) and another
\* ended "completed"; no run is outstanding.
C25_Witness ==
    /\ tasks = {}
    /\ \E j1, j2 \in DOMAIN jobs_db :
           /\ jobs_db[j1].status = "failed"
           /\ ~jobs_db[j1].plannedCount.int
           /\ jobs_db[j2].status = "completed"

\* C26: a draft is sent at most once: once a draft holds a messageId, no
\* later request replaces it, and no later send of that draft increments
\* the sentCount of its job again.
C26_SentOnce ==
    [][\A d \in DOMAIN drafts_db :
           drafts_db[d].messageId # 0 =>
               /\ drafts_db'[d].messageId = drafts_db[d].messageId
               /\ drafts_db'[d] # drafts_db[d] =>
                      jobs_db'[drafts_db[d].jobId].sentCount =
                          jobs_db[drafts_db[d].jobId].sentCount]_vars

\* C27: check_domain_restrictions never allows a domain that is on the
\* stored block list, also when the store has no client or the settings
\* read fails.
C27_BlockedNeverAllowed ==
    (/\ call.op = "check_domain_restrictions"
     /\ store_settings.exists
     /\ OnList(call.domain, store_settings.data.blockDomains))
        => ~ret.allowed

\* C28: check_send_limits is fail-closed: when the job is not stored, the
\* store has no client, or reading the job raises, it returns allowed =
\* FALSE with a reason, never allowed = TRUE.
C28_LimitsFailClosed ==
    (/\ call.op = "check_send_limits"
     /\ \/ db = None
        \/ call.fault
        \/ ~store_jobs[call.job_id].exists)
        => ret = [allowed |-> FALSE, reason |-> "Job not found"]

\* The store has no client while the stored job is within both caps for
\* the planned sends: the check denied.
C28_Witness ==
    /\ call.op = "check_send_limits"
    /\ db = None
    /\ ~call.fault
    /\ store_jobs[call.job_id].exists
    /\ store_jobs[call.job_id].data.sentCount + call.planned_send_count
           <= env.send_cap_per_run
    /\ store_jobs[call.job_id].data.sentCount + call.planned_send_count
           <= env.daily_send_cap
    /\ ~ret.allowed

\* C29: whenever ensure_email_compliance returns compliant = FALSE its
\* issues list is non-empty, also when only the subject is at fault.
C29_NonCompliantHasIssues ==
    (call.op = "ensure_email_compliance" /\ ~ret.compliant)
        => Len(ret.issues) > 0

\* C30: the body send_draft_email hands to the delivery client holds the
\* opt-out text exactly once and the legal text exactly once, also for a
\* draft body that was decorated when it was drafted.
C30_FooterOnce ==
    (call.op = "send_draft_email" /\ ret.mail.handed) =>
        /\ Cardinality(Occurrences(ret.mail.body, get_opt_out_text)) = 1
        /\ Cardinality(Occurrences(ret.mail.body, get_legal_text)) = 1

====
